---- MODULE Spec2Model ----
(***************************************************************************)
(* A model of the statement-normalization pipeline of the YNAB files       *)
(* converter: the batch analysis of uploaded files (analyzeFiles /         *)
(* analyzeFile and the vendor dispatch), the ledger client's               *)
(* refresh-and-retry policy (YNABService.fetchYNAB) and the per-vendor     *)
(* amount transforms.                                                      *)
(*                                                                         *)
(* JavaScript values are modelled by small records so that every field of  *)
(* a result keeps one shape: null and undefined are kept apart.            *)
(***************************************************************************)
EXTENDS Integers, Sequences, FiniteSets, TLC

VARIABLES
    files,      \* the File[] handed to analyzeFiles
    batch,      \* "idle" | "pending" | "resolved" | "rejected": the Promise.all promise
    pc,         \* per task: "idle" | "reading" | "extracting" | "returned" | "settled"
    loc,        \* per frame: the locals of one analyzeFile call
    ret,        \* per task: the value the analyzeFile promise resolved to
    values,     \* Promise.all's result array, filled per element
    order,      \* the order in which the element promises settled
    raised,     \* per task: an exception was raised while reading, dispatching or extracting
    unhandled,  \* tasks whose un-awaited analyzeCSVContent promise rejected
    out,        \* the array analyzeFiles resolved to
    call,       \* the ledger call in progress (fetchYNAB)
    svc,        \* the YNABService instance and the token storage
    row,        \* the last source row transformed by a vendor analyzer, and its outcome
    doc,        \* the content handed to a vendor analyzer's extract, and its outcome
    date,       \* the date cell handed to a vendor's date transform, and its outcome
    recon,      \* the account row of the balances report: balances, difference, note
    util,       \* the text handed to a text utility, and its outcome
    ui          \* the upload component: its files, selections, flags and the stored mapping

vars == <<files, batch, pc, loc, ret, values, order, raised, unhandled, out, call, svc, row,
          doc, date, recon, util, ui>>

batchVars == <<files, batch, pc, loc, ret, values, order, raised, unhandled, out>>

----------------------------------------------------------------------------
(* Bounds *)

MaxFiles == 2

----------------------------------------------------------------------------
(* JavaScript values *)

JNull == [k |-> "null", by |-> "", of |-> "", n |-> 0]
JUndef == [k |-> "undefined", by |-> "", of |-> "", n |-> 0]
JNum(n) == [k |-> "number", by |-> "", of |-> "", n |-> n]
\* a non-empty string a detector read from the file f
JIdent(v, f) == [k |-> "string", by |-> v, of |-> f.name, n |-> 0]
\* the text of a cell matched by findVendorInText
JText(f) == [k |-> "string", by |-> "text", of |-> f.name, n |-> 0]
\* a thrown exception, as the outcome of a call
JThrow == [k |-> "throw", by |-> "", of |-> "", n |-> 0]

Truthy(x) == x.k = "string"

\* the object an analyzer's analyzeFile resolves to
JData(v, f) == [k |-> "object",
                transactions |-> [k |-> "array", by |-> v, of |-> f.name, n |-> 0],
                finalBalance |-> f.bal]
NoData == [k |-> "null", transactions |-> JUndef, finalBalance |-> JUndef]

----------------------------------------------------------------------------
(* The registered analyzers and their detectors *)

\* fileAnalyzer.ts REGISTERED_ANALYZERS, in registration order
REGISTERED_ANALYZERS == <<"Cal", "Isracard", "Max", "MizrahiTfahot", "Poalim", "Discount">>

\* the detectors analyzeExcelContent consults, in the order of its if-chain
ExcelDetectors == <<"Cal", "Isracard", "Max", "MizrahiTfahot", "Discount">>

Vendors == {REGISTERED_ANALYZERS[n] : n \in 1..Len(REGISTERED_ANALYZERS)}

\* A file, as far as the pipeline looks at it:
\*   name     the file name (one per descriptor)
\*   ext      "csv" | "xlsx" | "other": which branch of analyzeFile the name takes
\*   prefix   "cal" | "export" | "shekel" | "discount" | "plain": what the name starts with
\*   maxIn    the lower-cased name includes 'transaction-details_export_'
\*   readOk   file.text() / file.arrayBuffer() resolves
\*   parseOk  XLSX.read / Papa.parse accept the content
\*   short    the first sheet lacks the header row a detector indexes
\*   hdr      the vendors whose content test the first sheet (or the CSV rows) passes
\*   blankId  the cell a detector returns as identifier is empty
\*   text     a 'description'-like column holds a known merchant pattern
\*   extractOk the matched analyzer's analyzeFile resolves
\*   bal      the finalBalance the analyzer finds
File(name, ext, prefix, maxIn, readOk, parseOk, short, hdr, blankId, text, extractOk, bal) ==
    [name |-> name, ext |-> ext, prefix |-> prefix, maxIn |-> maxIn, readOk |-> readOk,
     parseOk |-> parseOk, short |-> short, hdr |-> hdr, blankId |-> blankId, text |-> text,
     extractOk |-> extractOk, bal |-> bal]

\* the outcome of a detector: null, a thrown TypeError, or the identifier it returns
DNull == JNull
DThrow == JThrow
DBlank == JUndef

\* isCalFile / isIsracardFile / isMaxFile: name test, then a header row read by index
\* (a missing row makes firstRow.some throw), then the identifier cell
IndexedDetector(v, nameOk, f) ==
    IF ~nameOk THEN DNull
    ELSE IF f.short THEN DThrow
    ELSE IF v \notin f.hdr THEN DNull
    ELSE IF f.blankId THEN DBlank
    ELSE JIdent(v, f)

isCalFile(f) == IndexedDetector("Cal", f.prefix = "cal", f)
isIsracardFile(f) == IndexedDetector("Isracard", f.prefix = "export", f)
isMaxFile(f) == IndexedDetector("Max", f.maxIn, f)

\* content markers only; the identifier falls back to a fixed string
isMizrahiTfahotFile(f) ==
    IF "MizrahiTfahot" \in f.hdr THEN JIdent("MizrahiTfahot", f) ELSE DNull

\* name starts with 'shekel' and the header row is the Poalim header row
isPoalimFile(f) ==
    IF f.prefix = "shekel" /\ "Poalim" \in f.hdr THEN JIdent("Poalim", f) ELSE DNull

\* name starts with the Discount prefix and cell A1 holds the title
isDiscountFile(f) ==
    IF f.prefix = "discount" /\ "Discount" \in f.hdr THEN JIdent("Discount", f) ELSE DNull

isVendorFile(v, f) ==
    CASE v = "Cal" -> isCalFile(f)
      [] v = "Isracard" -> isIsracardFile(f)
      [] v = "Max" -> isMaxFile(f)
      [] v = "MizrahiTfahot" -> isMizrahiTfahotFile(f)
      [] v = "Poalim" -> isPoalimFile(f)
      [] OTHER -> isDiscountFile(f)

----------------------------------------------------------------------------
(* The dispatchers *)

\* the if-chain of analyzeExcelContent / the for-loop of analyzeCSVContent over the
\* detectors ds from position n on: the first truthy identifier wins, a throwing
\* detector ends the scan, and `seen` lists the detectors consulted
\* a scan that does not stop at its first match: the last match would win
RECURSIVE ScanLastWins(_, _, _, _)
ScanLastWins(ds, f, n, seen) ==
    IF n > Len(ds) THEN [k |-> "none", vendor |-> "null", identifier |-> JNull, consulted |-> seen]
    ELSE LET d == isVendorFile(ds[n], f)
             now == Append(seen, ds[n])
             rest == ScanLastWins(ds, f, n + 1, now)
         IN  IF d.k = "throw"
             THEN [k |-> "throw", vendor |-> "null", identifier |-> JNull, consulted |-> now]
             ELSE IF Truthy(d) /\ rest.k = "none"
             THEN [k |-> "match", vendor |-> ds[n], identifier |-> d,
                   consulted |-> rest.consulted]
             ELSE rest

RECURSIVE Scan(_, _, _, _)
Scan(ds, f, n, seen) ==
    IF n > Len(ds) THEN [k |-> "none", vendor |-> "null", identifier |-> JNull, consulted |-> seen]
    ELSE LET d == isVendorFile(ds[n], f)
             now == Append(seen, ds[n])
         IN  IF d.k = "throw"
             THEN [k |-> "throw", vendor |-> "null", identifier |-> JNull, consulted |-> now]
             ELSE IF Truthy(d)
             THEN [k |-> "match", vendor |-> ds[n], identifier |-> d, consulted |-> now]
             ELSE Scan(ds, f, n + 1, now)

\* analyzeExcelContent: XLSX.read, the detector chain, then findVendorInText over
\* the common columns; {vendorInfo: null, identifier: null} when nothing matches
analyzeExcelContent(f) ==
    IF ~f.parseOk
    THEN [k |-> "throw", vendor |-> "null", identifier |-> JNull, consulted |-> <<>>]
    ELSE LET s == Scan(ExcelDetectors, f, 1, <<>>)
         IN  IF s.k = "none" /\ f.text
             THEN [k |-> "text", vendor |-> "AMAZON", identifier |-> JText(f),
                   consulted |-> s.consulted]
             ELSE s

\* what a vendor's analyzeFile does with the content it is handed: a spreadsheet
\* analyzer throws on text, the CSV analyzer throws on binary
ExtractOutcome(v, f, isText) ==
    IF v \in {"Cal", "Isracard", "Max", "MizrahiTfahot"} /\ isText THEN JThrow
    ELSE IF v = "Poalim" /\ ~isText THEN JThrow
    ELSE IF ~f.extractOk THEN JThrow
    ELSE JNull

\* analyzeCSVContent, as the promise it returns: rejected when Papa.parse throws, when a
\* detector throws, when the matched analyzer rejects and when no analyzer matches
\* ('Unknown file format'); fulfilled with the matched analyzer's result otherwise
analyzeCSVContent(f) ==
    IF ~f.parseOk
    THEN [k |-> "rejected", vendor |-> "null", consulted |-> <<>>, data |-> NoData]
    ELSE LET s == Scan(REGISTERED_ANALYZERS, f, 1, <<>>)
         IN  IF s.k = "match" /\ ExtractOutcome(s.vendor, f, TRUE).k # "throw"
             THEN [k |-> "fulfilled", vendor |-> s.vendor, consulted |-> s.consulted,
                   data |-> JData(s.vendor, f)]
             ELSE [k |-> "rejected", vendor |-> IF s.k = "match" THEN s.vendor ELSE "null",
                   consulted |-> s.consulted, data |-> NoData]

----------------------------------------------------------------------------
(* The files a batch is drawn from *)

Xlsx(name, prefix, maxIn, hdr, bal) ==
    File(name, "xlsx", prefix, maxIn, TRUE, TRUE, FALSE, hdr, FALSE, FALSE, TRUE, bal)

\* the rows Papa.parse yields are no worksheet: sheet_to_json finds no row in them
Csv(name, prefix, hdr, bal) ==
    File(name, "csv", prefix, FALSE, TRUE, TRUE, TRUE, hdr, FALSE, FALSE, TRUE, bal)

FileUniverse ==
    { Xlsx("cal.xlsx", "cal", FALSE, {"Cal"}, JNum(5259)),
      Xlsx("cal-mizrahi.xlsx", "cal", FALSE, {"Cal", "MizrahiTfahot"}, JNum(10)),
      [Xlsx("cal-noid-mizrahi.xlsx", "cal", FALSE, {"Cal", "MizrahiTfahot"}, JNum(0))
          EXCEPT !.blankId = TRUE],
      [Xlsx("cal-short.xlsx", "cal", FALSE, {}, JNull) EXCEPT !.short = TRUE],
      [Xlsx("cal-broken-rows.xlsx", "cal", FALSE, {"Cal"}, JNull) EXCEPT !.extractOk = FALSE],
      Xlsx("export-max.xlsx", "export", TRUE, {"Isracard", "Max"}, JNum(120)),
      Xlsx("max.xlsx", "plain", TRUE, {"Max"}, JNum(0)),
      Xlsx("mizrahi.xlsx", "plain", FALSE, {"MizrahiTfahot"}, JNum(5000)),
      Xlsx("discount-mizrahi.xlsx", "discount", FALSE, {"Discount", "MizrahiTfahot"}, JNum(7)),
      Xlsx("discount.xlsx", "discount", FALSE, {"Discount"}, JNum(0)),
      Xlsx("shekel.xlsx", "shekel", FALSE, {"Poalim"}, JNull),
      Xlsx("unknown.xlsx", "plain", FALSE, {}, JNull),
      [Xlsx("amazon.xlsx", "plain", FALSE, {}, JNull) EXCEPT !.text = TRUE],
      [Xlsx("corrupt.xlsx", "plain", FALSE, {}, JNull) EXCEPT !.parseOk = FALSE],
      [Xlsx("unreadable.xlsx", "plain", FALSE, {}, JNull) EXCEPT !.readOk = FALSE],
      Csv("shekel123456789.csv", "shekel", {"Poalim"}, JNum(14800)),
      [Csv("shekel-bad-rows.csv", "shekel", {"Poalim"}, JNull) EXCEPT !.extractOk = FALSE],
      Csv("unknown.csv", "plain", {}, JNull),
      Csv("cal.csv", "cal", {}, JNull),
      File("notes.txt", "other", "plain", FALSE, TRUE, TRUE, FALSE, {}, FALSE, FALSE, TRUE, JNull) }

RECURSIVE SeqsUpTo(_, _)
SeqsUpTo(S, n) ==
    IF n = 0 THEN {<<>>}
    ELSE LET shorter == SeqsUpTo(S, n - 1)
         IN  shorter \cup {Append(s, x) : s \in {t \in shorter : Len(t) = n - 1}, x \in S}

Batches == SeqsUpTo(FileUniverse, MaxFiles)

----------------------------------------------------------------------------
(* analyzeFile and analyzeFiles *)

\* the FileAnalysis a successful run of the try block returns
Result(f, vendorInfo, data, finalBalance, identifier) ==
    [fileName |-> f.name, vendorInfo |-> vendorInfo, data |-> data,
     finalBalance |-> finalBalance, identifier |-> identifier, error |-> "absent"]

\* the FileAnalysis the catch block returns
ErrorResult(f) ==
    [fileName |-> f.name, vendorInfo |-> "null", data |-> [NoData EXCEPT !.k = "undefined"],
     finalBalance |-> JUndef, identifier |-> JNull, error |-> "message"]

Pending == [fileName |-> "", vendorInfo |-> "null", data |-> NoData,
            finalBalance |-> JUndef, identifier |-> JNull, error |-> "pending"]

\* the locals of one call: let vendorInfo = null, data = null, identifier = null
InitialLocals == [vendorInfo |-> "null", identifier |-> JNull, consulted |-> <<>>,
                  chosen |-> "null", path |-> "none"]

\* the frame that holds the locals of call i
FrameShared(i) == 1
Frame(i) == i

\* Promise.all stores the value of its i-th element at index i
ResolveIndexByArrival(i, ord) == Len(ord) + 1
ResolveIndex(i, ord) == i

Tasks == 1..Len(files)

\* analyzeFiles: files.map(analyzeFile) runs every call up to its first await, then
\* Promise.all waits. A name that is neither .csv nor a spreadsheet takes no branch
\* and returns at once.
CallAnalyzeFiles ==
    /\ batch = "idle"
    /\ batch' = "pending"
    /\ pc' = [i \in Tasks |-> IF files[i].ext = "other" THEN "returned" ELSE "reading"]
    /\ ret' = [i \in Tasks |->
                 IF files[i].ext = "other"
                 THEN Result(files[i], "null", NoData, JUndef, JNull)
                 ELSE Pending]
    /\ UNCHANGED <<files, loc, values, order, raised, unhandled, out, call, svc, row, doc, date, recon, util, ui>>

\* the continuation after `await file.text()`: analyzeCSVContent is called and its
\* promise is not awaited, so `analysis.vendorInfo` and `analysis.identifier` read
\* undefined from the promise object and the call returns
ReadDoneCsv(i) ==
    /\ pc[i] = "reading" /\ files[i].ext = "csv" /\ files[i].readOk
    /\ LET f == files[i]
           p == analyzeCSVContent(f)
       IN  /\ loc' = [loc EXCEPT ![Frame(i)] = [vendorInfo |-> "undefined",
                          identifier |-> JUndef, consulted |-> p.consulted,
                          chosen |-> p.vendor, path |-> "csv"]]
           /\ raised' = [raised EXCEPT ![i] = (p.k = "rejected")]
           /\ unhandled' = IF p.k = "rejected" THEN unhandled \cup {i} ELSE unhandled
           /\ ret' = [ret EXCEPT ![i] = Result(f, "undefined", NoData, JUndef, JUndef)]
           /\ pc' = [pc EXCEPT ![i] = "returned"]
    /\ UNCHANGED <<files, batch, values, order, out, call, svc, row, doc, date, recon, util, ui>>

\* the continuation after `await file.arrayBuffer()`: analyzeExcelContent, then the
\* matched analyzer's analyzeFile is called and awaited
ReadDoneExcel(i) ==
    /\ pc[i] = "reading" /\ files[i].ext = "xlsx" /\ files[i].readOk
    /\ LET f == files[i]
           a == analyzeExcelContent(f)
       IN  IF a.k = "throw"
           THEN /\ raised' = [raised EXCEPT ![i] = TRUE]
                /\ ret' = [ret EXCEPT ![i] = ErrorResult(f)]
                /\ pc' = [pc EXCEPT ![i] = "returned"]
                /\ loc' = [loc EXCEPT ![Frame(i)].consulted = a.consulted,
                                      ![Frame(i)].path = "excel"]
           ELSE /\ loc' = [loc EXCEPT ![Frame(i)] = [vendorInfo |-> a.vendor,
                               identifier |-> a.identifier, consulted |-> a.consulted,
                               chosen |-> IF a.k = "match" THEN a.vendor ELSE "null",
                               path |-> "excel"]]
                /\ raised' = raised
                /\ IF a.k = "match"
                   THEN /\ pc' = [pc EXCEPT ![i] = "extracting"]
                        /\ ret' = ret
                   ELSE /\ pc' = [pc EXCEPT ![i] = "returned"]
                        /\ ret' = [ret EXCEPT ![i] =
                                     Result(f, a.vendor, NoData, JUndef, a.identifier)]
    /\ UNCHANGED <<files, batch, values, order, unhandled, out, call, svc, row, doc, date, recon, util, ui>>

\* file.text() / file.arrayBuffer() rejects: the catch block returns the error result
ReadFailed(i) ==
    /\ pc[i] = "reading" /\ ~files[i].readOk
    /\ raised' = [raised EXCEPT ![i] = TRUE]
    /\ ret' = [ret EXCEPT ![i] = ErrorResult(files[i])]
    /\ pc' = [pc EXCEPT ![i] = "returned"]
    /\ UNCHANGED <<files, batch, loc, values, order, unhandled, out, call, svc, row, doc, date, recon, util, ui>>

\* the continuation after `await vendorInfo.analyzeFile(buffer, file.name)`
ExtractDone(i) ==
    /\ pc[i] = "extracting"
    /\ LET f == files[i]
           l == loc[Frame(i)]
           e == ExtractOutcome(l.vendorInfo, f, FALSE)
           data == JData(l.vendorInfo, f)
       IN  IF e.k = "throw"
           THEN /\ raised' = [raised EXCEPT ![i] = TRUE]
                /\ ret' = [ret EXCEPT ![i] = ErrorResult(f)]
           ELSE /\ raised' = raised
                /\ ret' = [ret EXCEPT ![i] =
                             Result(f, l.vendorInfo, data, data.finalBalance, l.identifier)]
    /\ pc' = [pc EXCEPT ![i] = "returned"]
    /\ UNCHANGED <<files, batch, loc, values, order, unhandled, out, call, svc, row, doc, date, recon, util, ui>>

\* Promise.all's reaction to the i-th promise: store its value, count it
Settle(i) ==
    /\ pc[i] = "returned"
    /\ values' = [values EXCEPT ![ResolveIndex(i, order)] = ret[i]]
    /\ order' = Append(order, i)
    /\ pc' = [pc EXCEPT ![i] = "settled"]
    /\ UNCHANGED <<files, batch, loc, ret, raised, unhandled, out, call, svc, row, doc, date, recon, util, ui>>

\* every element has settled: the promise of analyzeFiles resolves to the array
Resolve ==
    /\ batch = "pending"
    /\ \A i \in Tasks : pc[i] = "settled"
    /\ batch' = "resolved"
    /\ out' = [i \in Tasks |-> values[i]]
    /\ UNCHANGED <<files, pc, loc, ret, values, order, raised, unhandled, call, svc, row, doc, date, recon, util, ui>>

IdleCall == [pc |-> "idle"]
IdleSvc == [calls |-> 0]
IdleRow == [pc |-> "idle"]
IdleDoc == [pc |-> "idle"]
IdleDate == [pc |-> "idle"]
IdleRecon == [pc |-> "idle"]
IdleUtil == [pc |-> "idle"]
IdleUi == [pc |-> "idle"]

Init ==
    /\ files \in Batches
    /\ batch = "idle"
    /\ pc = [i \in Tasks |-> "idle"]
    /\ loc = [i \in Tasks |-> InitialLocals]
    /\ ret = [i \in Tasks |-> Pending]
    /\ values = [i \in Tasks |-> Pending]
    /\ order = <<>>
    /\ raised = [i \in Tasks |-> FALSE]
    /\ unhandled = {}
    /\ out = <<>>
    /\ call = IdleCall
    /\ svc = IdleSvc
    /\ row = IdleRow /\ doc = IdleDoc /\ date = IdleDate /\ recon = IdleRecon /\ util = IdleUtil /\ ui = IdleUi

Next ==
    \/ CallAnalyzeFiles
    \/ \E i \in Tasks : ReadDoneCsv(i)
    \/ \E i \in Tasks : ReadDoneExcel(i)
    \/ \E i \in Tasks : ReadFailed(i)
    \/ \E i \in Tasks : ExtractDone(i)
    \/ \E i \in Tasks : Settle(i)
    \/ Resolve

Spec == Init /\ [][Next]_vars

----------------------------------------------------------------------------
(* Properties of the batch analysis *)

Returned(i) == pc[i] \in {"returned", "settled"}

\* analyzeFile run on one file by itself, start to end
AnalyzeAlone(f) ==
    IF f.ext = "other" THEN Result(f, "null", NoData, JUndef, JNull)
    ELSE IF ~f.readOk THEN ErrorResult(f)
    ELSE IF f.ext = "csv" THEN Result(f, "undefined", NoData, JUndef, JUndef)
    ELSE LET a == analyzeExcelContent(f)
         IN  IF a.k = "throw" THEN ErrorResult(f)
             ELSE IF a.k # "match" THEN Result(f, a.vendor, NoData, JUndef, a.identifier)
             ELSE IF ExtractOutcome(a.vendor, f, FALSE).k = "throw" THEN ErrorResult(f)
             ELSE Result(f, a.vendor, JData(a.vendor, f), f.bal, a.identifier)

\* the detectors the pipeline consults for a file, by the branch its name takes
PathDetectors(f) == IF f.ext = "csv" THEN REGISTERED_ANALYZERS ELSE ExcelDetectors

Rank(v) == CHOOSE n \in 1..Len(REGISTERED_ANALYZERS) : REGISTERED_ANALYZERS[n] = v

Nullish(x) == x.k \in {"null", "undefined"}

\* C1: analyzeFiles resolves to one entry per input file, entry i being the result
\* of files[i], whatever the completion order and whichever analyses failed; the
\* batch promise is never rejected
C1_OneResultPerFileInInputOrder ==
    /\ batch # "rejected"
    /\ batch = "resolved" =>
          /\ DOMAIN out = 1..Len(files)
          /\ \A i \in Tasks : out[i] = ret[i] /\ out[i].fileName = files[i].name

\* a batch of two different files, the second settling first, one of them failing
C1_Witness ==
    /\ batch = "resolved"
    /\ Len(files) = 2
    /\ order = <<2, 1>>
    /\ files[1].name # files[2].name
    /\ \E i \in Tasks : out[i].error = "message"

\* C2 (as claimed): every exception raised while a file is read, dispatched or
\* extracted becomes that file's error result, and the batch never rejects
C2_ExceptionsBecomeErrorResults ==
    /\ batch # "rejected"
    /\ \A i \in Tasks : (Returned(i) /\ raised[i]) => ret[i] = ErrorResult(files[i])

\* C3: in a resolved batch every file's result is the result of analysing that file
\* alone, whatever failed or was slow beside it
C3_BatchIsolation ==
    batch = "resolved" => \A i \in Tasks : out[i] = AnalyzeAlone(files[i])

\* a resolved batch with a failing file beside a valid, recognized file whose
\* transactions were extracted
C3_Witness ==
    /\ batch = "resolved"
    /\ \E i, j \in Tasks :
          /\ out[i].error = "message"
          /\ out[j].error = "absent"
          /\ out[j].vendorInfo \in Vendors
          /\ out[j].data.k = "object"

\* no registered detector returns an identifier for a readable, parseable file
Unrecognized(f) ==
    /\ f.ext \in {"csv", "xlsx"} /\ f.readOk /\ f.parseOk
    /\ \A v \in Vendors : isVendorFile(v, f).k \notin {"string", "throw"}

\* C4 (as claimed): a file no registered detector matches yields vendorInfo null,
\* identifier null, no error, and no exception is raised for it
C4_UnrecognizedIsNotAnError ==
    \A i \in Tasks :
        (Returned(i) /\ Unrecognized(files[i])) =>
            /\ ret[i].vendorInfo \in {"null", "undefined"}
            /\ Nullish(ret[i].identifier)
            /\ ret[i].error = "absent"
            /\ ~raised[i]
            /\ i \notin unhandled

\* C5 (as claimed): when a registered detector matches and the analyzer extracts, the
\* result carries that vendor, the detector's identifier and the extracted
\* transactions and finalBalance - on the CSV path as on the spreadsheet path
C5_MatchedVendorIsReported ==
    \A i \in Tasks :
        LET f == files[i]
            s == Scan(PathDetectors(f), f, 1, <<>>)
        IN  (/\ Returned(i) /\ f.ext \in {"csv", "xlsx"} /\ f.readOk /\ f.parseOk
             /\ s.k = "match"
             /\ ExtractOutcome(s.vendor, f, f.ext = "csv").k # "throw")
            => /\ ret[i].vendorInfo = s.vendor
               /\ ret[i].identifier = isVendorFile(s.vendor, f)
               /\ ret[i].data = JData(s.vendor, f)
               /\ ret[i].finalBalance = f.bal

\* C6: the detectors are consulted in registration order; the first one that
\* returns an identifier is the vendor, none after it is consulted, and a file is
\* attributed to no other registered vendor
C6_FirstDetectorWins ==
    /\ \A a, b \in 1..Len(ExcelDetectors) :
          a < b => Rank(ExcelDetectors[a]) < Rank(ExcelDetectors[b])
    /\ \A i \in Tasks :
          LET f == files[i]
              l == loc[i]
              ds == PathDetectors(f)
              n == Len(l.consulted)
          IN  l.path # "none" =>
                /\ n <= Len(ds)
                /\ \A m \in 1..n : l.consulted[m] = ds[m]
                /\ \A m \in 1..(n - 1) : isVendorFile(ds[m], f).k \notin {"string", "throw"}
                /\ l.chosen # "null" =>
                      /\ n > 0 /\ l.chosen = ds[n]
                      /\ Truthy(isVendorFile(l.chosen, f))
                /\ (l.chosen = "null" /\ n > 0 /\ f.parseOk) =>
                      \/ isVendorFile(ds[n], f).k = "throw"
                      \/ n = Len(ds) /\ ~Truthy(isVendorFile(ds[n], f))
                /\ (Returned(i) /\ ret[i].vendorInfo \in Vendors) =>
                      ret[i].vendorInfo = l.chosen

\* a file that satisfies two detectors has been attributed to the earlier one
C6_Witness ==
    \E i \in Tasks :
        /\ Returned(i)
        /\ Cardinality({v \in Vendors : Truthy(isVendorFile(v, files[i]))}) >= 2
        /\ ret[i].vendorInfo \in Vendors
        /\ \A v \in Vendors :
              Truthy(isVendorFile(v, files[i])) => Rank(ret[i].vendorInfo) <= Rank(v)

----------------------------------------------------------------------------
(* The ledger client: YNABService.fetchYNAB and refreshAccessToken *)

MaxCalls == 3

\* the HTTP status classes a fetch of the ledger API can answer with; "network" is a
\* fetch that throws
Responses == {"ok", "unauthorized", "failed", "network"}

\* the service after construction: tokenExpiry = null; the refresh token is optional
NewService(hasRefresh) ==
    [hasRefresh |-> hasRefresh, expiry |-> "none", stored |-> TRUE, generation |-> 0,
     calls |-> 0]

NoCall == [pc |-> "idle", unauthorized |-> FALSE, requests |-> 0, retries |-> 0,
           refreshes |-> 0, refreshesAfter401 |-> 0, refreshOk |-> FALSE,
           retryOk |-> FALSE, retryStatus |-> "none", outcome |-> "none"]

\* refreshAccessToken on the service s with the token endpoint answering ok or not:
\* 'No refresh token available' is thrown before the try block; a failed exchange
\* clears the stored tokens and rethrows; a successful one installs the new tokens
\* and their expiry and stores them. rotated: the answer carries a refresh_token.
refreshAccessToken(s, answerOk, rotated) ==
    IF ~s.hasRefresh THEN [ok |-> FALSE, svc |-> s]
    ELSE IF ~answerOk THEN [ok |-> FALSE, svc |-> [s EXCEPT !.stored = FALSE]]
    ELSE [ok |-> TRUE,
          svc |-> [s EXCEPT !.hasRefresh = rotated, !.expiry = "fresh", !.stored = TRUE,
                            !.generation = (s.generation + 1) % 2]]

\* the catch block of the 401 branch: the stored tokens are removed
ClearStored(s) == [s EXCEPT !.stored = FALSE]

\* fetchYNAB is entered: an expired tokenExpiry asks for a refresh first
BeginCall ==
    /\ call.pc = "idle" /\ svc.calls < MaxCalls
    /\ svc' = [svc EXCEPT !.calls = svc.calls + 1]
    /\ call' = [NoCall EXCEPT !.pc = IF svc.expiry = "expired" THEN "preRefresh" ELSE "request"]
    /\ UNCHANGED <<batchVars, row, doc, date, recon, util, ui>>

\* the refresh before the request; its failure propagates out of fetchYNAB as it is
PreRefresh ==
    /\ call.pc = "preRefresh"
    /\ \E answerOk \in BOOLEAN, rotated \in BOOLEAN :
          LET r == refreshAccessToken(svc, answerOk, rotated)
          IN  /\ svc' = r.svc
              /\ call' = [call EXCEPT !.refreshes = call.refreshes + 1,
                                      !.pc = IF r.ok THEN "request" ELSE "done",
                                      !.outcome = IF r.ok THEN "none" ELSE "refresh_error"]
    /\ UNCHANGED <<batchVars, row, doc, date, recon, util, ui>>

\* the answer to the original request
Respond ==
    /\ call.pc = "request"
    /\ \E resp \in Responses :
          call' = [call EXCEPT
                     !.requests = call.requests + 1,
                     !.unauthorized = (resp = "unauthorized"),
                     !.pc = IF resp = "unauthorized" THEN "refresh401" ELSE "done",
                     !.outcome = CASE resp = "ok" -> "ok"
                                   [] resp = "unauthorized" -> "none"
                                   [] resp = "failed" -> "api_error"
                                   [] OTHER -> "network_error"]
    /\ UNCHANGED <<batchVars, svc, row, doc, date, recon, util, ui>>

\* the 401 branch: refresh; a failed refresh is caught, the stored tokens are
\* cleared and 'Authentication failed. Please reconnect to YNAB.' is thrown
RefreshAfter401 ==
    /\ call.pc = "refresh401"
    /\ \E answerOk \in BOOLEAN, rotated \in BOOLEAN :
          LET r == refreshAccessToken(svc, answerOk, rotated)
          IN  /\ svc' = IF r.ok THEN r.svc ELSE ClearStored(r.svc)
              /\ call' = [call EXCEPT !.refreshes = call.refreshes + 1,
                                      !.refreshesAfter401 = call.refreshesAfter401 + 1,
                                      !.refreshOk = r.ok,
                                      !.pc = IF r.ok THEN "retry" ELSE "done",
                                      !.outcome = IF r.ok THEN "none" ELSE "auth_error"]
    /\ UNCHANGED <<batchVars, row, doc, date, recon, util, ui>>

\* where the call goes after the answer to its retry: it always ends
AfterRetryRefreshAgain(resp) == IF resp = "unauthorized" THEN "refresh401" ELSE "done"
AfterRetry(resp) == "done"

\* the answer to the retried request: anything but ok throws inside the try block,
\* is caught, clears the stored tokens and ends as the authentication error
RetryRespond ==
    /\ call.pc = "retry"
    /\ \E resp \in Responses :
          /\ call' = [call EXCEPT
                        !.requests = call.requests + 1,
                        !.retries = call.retries + 1,
                        !.retryOk = (resp = "ok"),
                        !.retryStatus = resp,
                        !.pc = AfterRetry(resp),
                        !.outcome = IF resp = "ok" THEN "ok" ELSE "auth_error"]
          /\ svc' = IF resp = "ok" THEN svc ELSE ClearStored(svc)
    /\ UNCHANGED <<batchVars, row, doc, date, recon, util, ui>>

\* the caller has the outcome; the service is free for the next call
EndCall ==
    /\ call.pc = "done"
    /\ call' = NoCall
    /\ UNCHANGED <<batchVars, svc, row, doc, date, recon, util, ui>>

\* time passes: the expiry set by the last refresh is reached
ExpiryReached ==
    /\ call.pc = "idle" /\ svc.expiry = "fresh"
    /\ svc' = [svc EXCEPT !.expiry = "expired"]
    /\ UNCHANGED <<batchVars, call, row, doc, date, recon, util, ui>>

InitFetch ==
    /\ files = <<>> /\ batch = "idle" /\ pc = <<>> /\ loc = <<>> /\ ret = <<>>
    /\ values = <<>> /\ order = <<>> /\ raised = <<>> /\ unhandled = {} /\ out = <<>>
    /\ row = IdleRow /\ doc = IdleDoc /\ date = IdleDate /\ recon = IdleRecon /\ util = IdleUtil /\ ui = IdleUi
    /\ call = NoCall
    /\ \E hasRefresh \in BOOLEAN : svc = NewService(hasRefresh)

NextFetch ==
    \/ BeginCall
    \/ PreRefresh
    \/ Respond
    \/ RefreshAfter401
    \/ RetryRespond
    \/ EndCall
    \/ ExpiryReached

SpecFetch == InitFetch /\ [][NextFetch]_vars

\* C7 (as claimed): a call answered 401 makes exactly one refresh and exactly one
\* retry, and a failed retry ends in the authentication error
C7_OneRefreshOneRetry ==
    (call.pc = "done" /\ call.unauthorized) =>
        /\ call.refreshesAfter401 = 1
        /\ call.retries = 1
        /\ ~call.retryOk => call.outcome = "auth_error"

\* C7 (amended): a call answered 401 makes exactly one refresh attempt in response;
\* it retries the request exactly once when that refresh succeeds and not at all
\* when it fails; a failed refresh or retry ends in the authentication error, and
\* the request is never sent a third time
C7_OneRefreshAtMostOneRetry ==
    /\ call.refreshesAfter401 <= 1 /\ call.retries <= 1 /\ call.requests <= 2
    /\ call.retries = 1 => call.refreshOk
    /\ (call.pc = "done" /\ call.unauthorized) =>
          /\ call.refreshesAfter401 = 1
          /\ call.retries = (IF call.refreshOk THEN 1 ELSE 0)
          /\ call.outcome = (IF call.refreshOk /\ call.retryOk THEN "ok" ELSE "auth_error")

\* a call whose request and whose single retry both failed
C7_Witness ==
    /\ call.pc = "done" /\ call.unauthorized
    /\ call.refreshOk /\ call.retries = 1 /\ ~call.retryOk
    /\ call.outcome = "auth_error"

----------------------------------------------------------------------------
(* The vendor analyzers' amount transforms and row mapping.                  *)
(* A JS number is held as an exact decimal (IEEE rounding is left out, -0 is  *)
(* 0): a source value scaled by Unit, an amount in milliunits scaled by        *)
(* MilliUnit. A string is a sequence of one-character strings.                 *)

MaxLen == 4

RECURSIVE Pow10(_)
Pow10(n) == IF n = 0 THEN 1 ELSE 10 * Pow10(n - 1)

\* the scale of a source value: four decimal places, the most a cell of MaxLen + 1
\* characters can write
Unit == Pow10(4)

\* the scale of an amount in milliunits: the same four decimal places of currency
MilliUnit == Unit \div Pow10(3)

\* the characters of the amount cells: digits, the decimal point, the thousands
\* separator, the minus sign and a letter
Alphabet == {"0", "5", ".", ",", "-", "x"}
Digits == {"0", "1", "2", "3", "4", "5", "6", "7", "8", "9"}

DigitVal(c) ==
    CASE c = "0" -> 0 [] c = "1" -> 1 [] c = "2" -> 2 [] c = "3" -> 3 [] c = "4" -> 4
      [] c = "5" -> 5 [] c = "6" -> 6 [] c = "7" -> 7 [] c = "8" -> 8 [] OTHER -> 9

DigitChar(d) ==
    CASE d = 0 -> "0" [] d = 1 -> "1" [] d = 2 -> "2" [] d = 3 -> "3" [] d = 4 -> "4"
      [] d = 5 -> "5" [] d = 6 -> "6" [] d = 7 -> "7" [] d = 8 -> "8" [] OTHER -> "9"

\* JS values of a cell or of an amount
JSUndefined == [t |-> "undefined", s |-> <<>>, v |-> 0]
JSNull == [t |-> "null", s |-> <<>>, v |-> 0]
NaN == [t |-> "number", s |-> <<"NaN">>, v |-> 0]
Num(v) == [t |-> "number", s |-> <<>>, v |-> v]
Str(s) == [t |-> "string", s |-> s, v |-> 0]

IsNum(x) == x.t = "number" /\ x.s = <<>>

\* !value is false
JSTruthy(x) ==
    \/ x.t = "string" /\ x.s # <<>>
    \/ IsNum(x) /\ x.v # 0

\* the number of digits of s from position i on
RECURSIVE LeadingDigits(_, _)
LeadingDigits(s, i) ==
    IF i > Len(s) \/ s[i] \notin Digits THEN 0 ELSE 1 + LeadingDigits(s, i + 1)

\* the integer written by the n digits of s from position i on
RECURSIVE DigitsValue(_, _, _)
DigitsValue(s, i, n) ==
    IF n = 0 THEN 0 ELSE 10 * DigitsValue(s, i, n - 1) + DigitVal(s[i + n - 1])

\* the longest prefix of s that is a decimal literal: sign, digits, point, digits
DecimalPrefix(s) ==
    LET signed == Len(s) > 0 /\ s[1] \in {"-", "+"}
        start == IF signed THEN 2 ELSE 1
        a == LeadingDigits(s, start)
        dot == start + a <= Len(s) /\ s[start + a] = "."
        b == IF dot THEN LeadingDigits(s, start + a + 1) ELSE 0
        mag == DigitsValue(s, start, a) * Unit
                 + (DigitsValue(s, start + a + 1, b) * Unit) \div Pow10(b)
    IN  [ok |-> a + b > 0,
         used |-> (start - 1) + a + (IF dot THEN 1 + b ELSE 0),
         v |-> IF signed /\ s[1] = "-" THEN 0 - mag ELSE mag]

\* parseFloat(s)
parseFloat(s) ==
    LET p == DecimalPrefix(s) IN IF p.ok THEN Num(p.v) ELSE NaN

\* parseInt(s): sign and leading digits
parseInt(s) ==
    LET signed == Len(s) > 0 /\ s[1] \in {"-", "+"}
        start == IF signed THEN 2 ELSE 1
        a == LeadingDigits(s, start)
        mag == DigitsValue(s, start, a) * Unit
    IN  IF a = 0 THEN NaN
        ELSE Num(IF signed /\ s[1] = "-" THEN 0 - mag ELSE mag)

\* s.trim(): s without its leading and trailing blanks
RECURSIVE TrimStart(_)
TrimStart(s) ==
    IF s # <<>> /\ Head(s) = " " THEN TrimStart(Tail(s)) ELSE s

RECURSIVE TrimEnd(_)
TrimEnd(s) ==
    IF s # <<>> /\ s[Len(s)] = " " THEN TrimEnd(SubSeq(s, 1, Len(s) - 1)) ELSE s

Trim(s) == TrimEnd(TrimStart(s))

\* Number(s) of a string: the whole trimmed string is the literal; '' is 0
StringToNumber(s) ==
    LET t == Trim(s)
        p == DecimalPrefix(t)
    IN  IF t = <<>> THEN Num(0)
        ELSE IF p.ok /\ p.used = Len(t) THEN Num(p.v)
        ELSE NaN

\* the decimal digits of the natural number n
RECURSIVE NatToString(_)
NatToString(n) ==
    IF n < 10 THEN <<DigitChar(n)>> ELSE NatToString(n \div 10) \o <<DigitChar(n % 10)>>

\* the fraction f / scale (0 <= f < scale) as digits without trailing zeros
RECURSIVE FracToString(_, _)
FracToString(f, scale) ==
    IF f = 0 THEN <<>>
    ELSE <<DigitChar((f * 10) \div scale)>> \o FracToString((f * 10) % scale, scale)

\* String(value)
StringOf(x) ==
    IF x.t = "string" THEN x.s
    ELSE IF x.t = "undefined" THEN <<"u", "n", "d", "e", "f", "i", "n", "e", "d">>
    ELSE IF x.t = "null" THEN <<"n", "u", "l", "l">>
    ELSE IF ~IsNum(x) THEN <<"N", "a", "N">>
    ELSE LET mag == IF x.v < 0 THEN 0 - x.v ELSE x.v
             frac == FracToString(mag % Unit, Unit)
         IN  (IF x.v < 0 THEN <<"-">> ELSE <<>>)
               \o NatToString(mag \div Unit)
               \o (IF frac = <<>> THEN <<>> ELSE <<".">> \o frac)

\* Number(value), the coercion of value * k
ToNumber(x) ==
    CASE x.t = "string" -> StringToNumber(x.s)
      [] x.t = "null" -> Num(0)
      [] x.t = "undefined" -> NaN
      [] OTHER -> x

\* value.replace('.', ''): the first occurrence only
RECURSIVE ReplaceFirst(_, _)
ReplaceFirst(s, c) ==
    IF s = <<>> THEN <<>>
    ELSE IF Head(s) = c THEN Tail(s)
    ELSE <<Head(s)>> \o ReplaceFirst(Tail(s), c)

\* value.replace(/,/g, '')
ReplaceAll(s, c) == SelectSeq(s, LAMBDA ch : ch # c)

\* x * k for a source value x and the factor k of a mapping (10 or 1000, signed),
\* as an amount: x.v * k * MilliUnit / Unit, which is exact for the thousands and
\* for the integers parseInt returns
Times(x, k) ==
    IF ~IsNum(x) THEN NaN
    ELSE IF k % 1000 = 0 THEN Num(x.v * (k \div 1000))
    ELSE IF x.v % 1000 = 0 THEN Num((x.v \div 1000) * k)
    ELSE Num((x.v * k) \div 1000)

\* Math.floor of an amount
MathFloor(x) == IF IsNum(x) THEN Num((x.v \div MilliUnit) * MilliUnit) ELSE NaN

\* Math.round of an amount: the nearest integer, a half goes up
MathRound(x) ==
    IF IsNum(x) THEN Num(((2 * x.v + MilliUnit) \div (2 * MilliUnit)) * MilliUnit) ELSE NaN

\* Number(x.toFixed(digits)) of an amount: the nearest multiple of 10^-digits, a
\* half goes away from zero; digits the scale cannot hold leave x as it is;
\* NaN.toFixed is 'NaN'
ToFixed(x, digits) ==
    IF ~IsNum(x) THEN NaN
    ELSE IF Pow10(digits) >= MilliUnit THEN x
    ELSE LET g == MilliUnit \div Pow10(digits)
             mag == IF x.v < 0 THEN 0 - x.v ELSE x.v
             r == ((2 * mag + g) \div (2 * g)) * g
         IN  Num(IF x.v < 0 THEN 0 - r ELSE r)

\* isNaN(x): of the coerced number
isNaN(x) == ~IsNum(ToNumber(x))

\* ---- the amount transforms of the field mappings ----

\* POALIM_FIELD_MAPPINGS, debit (k = -10) and credit (k = 10): an empty value is
\* null; the first '.' is removed, parseInt reads the leading digits, and the
\* integer is multiplied by k
PoalimTransformMilli(value, k) ==
    IF ~JSTruthy(value) THEN JSNull
    ELSE LET num == parseFloat(value.s)
         IN  IF isNaN(num) THEN JSNull ELSE Times(num, k * 100)
PoalimTransform(value, k) ==
    IF ~JSTruthy(value) THEN JSNull
    ELSE LET num == parseInt(ReplaceFirst(value.s, "."))
         IN  IF isNaN(num) THEN JSNull ELSE Times(num, k)

\* CAL_FIELD_MAPPINGS, amount: undefined, null and '' are 0; commas are stripped;
\* parseFloat; NaN (the cell 'לא מספר' among them) is null; Math.floor(num * -1000)
CalTransform(value) ==
    IF value.t \in {"undefined", "null"} \/ value = Str(<<>>) THEN Num(0)
    ELSE LET num == parseFloat(ReplaceAll(StringOf(value), ","))
         IN  IF isNaN(num) THEN JSNull ELSE MathFloor(Times(num, -1000))

\* MAX_FIELD_MAPPINGS, amount: a falsy value is null; a string is stripped, read by
\* parseFloat and floored; a number is rounded
MaxTransform(value) ==
    IF ~JSTruthy(value) THEN JSNull
    ELSE IF value.t = "string"
    THEN LET num == parseFloat(ReplaceAll(value.s, ","))
         IN  IF isNaN(num) THEN JSNull ELSE MathFloor(Times(num, -1000))
    ELSE IF value.t = "number" THEN MathRound(Times(value, -1000))
    ELSE JSNull

\* ISRACARD_FIELD_MAPPINGS, amount: Number((value * -1000).toFixed(2))
IsracardTransformUnsigned(value) == ToFixed(Times(ToNumber(value), 1000), 2)
IsracardTransform(value) == ToFixed(Times(ToNumber(value), -1000), 2)

\* MIZRAHI_TFAHOT_FIELD_MAPPINGS, debit (k = -1000) and credit (k = 1000), applied
\* to String(value): '' is 0; commas are stripped; Number; toFixed(0)
MizrahiTransform(s, k) ==
    IF s = <<>> THEN Num(0)
    ELSE ToFixed(Times(StringToNumber(ReplaceAll(s, ",")), k), 0)

\* DISCOUNT_FIELD_MAPPINGS, the signed amount column, applied to String(value)
DiscountTransform(s) ==
    IF s = <<>> THEN Num(0)
    ELSE ToFixed(Times(StringToNumber(ReplaceAll(s, ",")), 1000), 0)

\* ---- a source row and the transactions it yields ----

\* A row holds its amount cells: charge is the debit column of a bank statement,
\* the charge column of a card statement, the signed column of Discount; credit is
\* the credit column of a bank statement and is undefined elsewhere.
Transaction(amount) == [amount |-> amount]

\* if (value !== undefined && !transformedRow[mapping.target])
Guarded(acc, value, transformed) ==
    IF value.t # "undefined" /\ ~JSTruthy(acc) THEN transformed ELSE acc

\* if (header && row[index]) transaction[header] = row[index]
KeepTruthy(cell) == IF JSTruthy(cell) THEN cell ELSE JSUndefined

\* analyzePoalimFile, one row: the debit mapping, then the credit mapping
PoalimRow(r) ==
    LET a1 == Guarded(JSUndefined, r.charge, PoalimTransform(r.charge, -10))
        a2 == Guarded(a1, r.credit, PoalimTransform(r.credit, 10))
    IN  <<Transaction(a2)>>

\* analyzeCalFile, one row: amount starts at 0, every row is returned
CalRow(r) ==
    LET value == KeepTruthy(r.charge)
    IN  <<Transaction(IF value.t # "undefined" THEN CalTransform(value) ELSE Num(0))>>

\* processMaxSheet, one row: rows whose amount is NaN or missing are dropped
MaxRow(r) ==
    LET value == KeepTruthy(r.charge)
        amount == Guarded(JSUndefined, value, MaxTransform(value))
    IN  IF isNaN(amount) THEN <<>> ELSE <<Transaction(amount)>>

\* analyzeIsracardFile, one row: rows whose amount is NaN or missing are dropped
IsracardRow(r) ==
    LET amount == Guarded(JSUndefined, r.charge, IsracardTransform(r.charge))
    IN  IF isNaN(amount) THEN <<>> ELSE <<Transaction(amount)>>

\* one row with the first populated amount mapping kept
MizrahiRowFirstKept(r) ==
    LET a1 == Guarded(Num(0), r.charge, MizrahiTransform(StringOf(r.charge), -1000))
        a2 == Guarded(a1, r.credit, MizrahiTransform(StringOf(r.credit), 1000))
    IN  <<Transaction(a2)>>

\* transformTransactions of Mizrahi Tfahot, one row
MizrahiRow(r) ==
    LET hasCredit == JSTruthy(r.credit) /\ StringOf(r.credit) # <<>>
        hasDebit == JSTruthy(r.charge) /\ StringOf(r.charge) # <<>>
        a1 == IF hasCredit /\ ~hasDebit THEN Num(0)
              ELSE IF r.charge.t # "undefined"
              THEN MizrahiTransform(StringOf(r.charge), -1000) ELSE Num(0)
        a2 == IF hasDebit /\ ~hasCredit THEN a1
              ELSE IF r.credit.t # "undefined"
              THEN MizrahiTransform(StringOf(r.credit), 1000) ELSE a1
        a3 == IF a2 = Num(0) /\ hasCredit THEN MizrahiTransform(StringOf(r.credit), 1000)
              ELSE IF a2 = Num(0) /\ hasDebit THEN MizrahiTransform(StringOf(r.charge), -1000)
              ELSE a2
    IN  <<Transaction(a3)>>

\* transformTransactions of Discount, one row
DiscountRow(r) ==
    <<Transaction(IF r.charge.t # "undefined"
                  THEN DiscountTransform(StringOf(r.charge)) ELSE Num(0))>>

\* ---- the rows analysed ----

Strings == SeqsUpTo(Alphabet, MaxLen)

\* numeric cells: -5, 0, 0.0004, 0.005, 5, 99.99
NumberCells ==
    { Num(n) : n \in {0 - 5 * Unit, 0, Unit \div 2500, Unit \div 200, 5 * Unit,
                      (9999 * Unit) \div 100} }

StringCells == { Str(s) : s \in Strings }

\* the other amount column of a two-column row: missing, empty or holding 5
OtherColumn == {JSUndefined, Str(<<>>), Str(<<"5">>)}

\* Papa.parse yields strings; sheet_to_json with raw: false yields strings; the
\* other sheets yield strings and numbers
CellsOf(vendor) ==
    IF vendor \in {"Poalim", "Cal"} THEN StringCells \cup {JSUndefined}
    ELSE StringCells \cup NumberCells \cup {JSUndefined}

TwoColumn == {"Poalim", "MizrahiTfahot"}

\* a row of the vendor: cell c in one amount column and, for the two-column
\* statements, o in the other; swapped puts c in the credit column
SourceRow(vendor, c, o, swapped) ==
    IF vendor \notin TwoColumn THEN [vendor |-> vendor, charge |-> c, credit |-> JSUndefined]
    ELSE IF swapped THEN [vendor |-> vendor, charge |-> o, credit |-> c]
    ELSE [vendor |-> vendor, charge |-> c, credit |-> o]

RawRow(r) == [pc |-> "raw", vendor |-> r.vendor, charge |-> r.charge,
              credit |-> r.credit, out |-> <<>>]

Analyzed(transactions) == [row EXCEPT !.pc = "done", !.out = transactions]

analyzePoalimFile ==
    /\ row.pc = "raw" /\ row.vendor = "Poalim"
    /\ row' = Analyzed(PoalimRow(row))
    /\ UNCHANGED <<batchVars, call, svc, doc, date, recon, util, ui>>

analyzeCalFile ==
    /\ row.pc = "raw" /\ row.vendor = "Cal"
    /\ row' = Analyzed(CalRow(row))
    /\ UNCHANGED <<batchVars, call, svc, doc, date, recon, util, ui>>

analyzeMaxFile ==
    /\ row.pc = "raw" /\ row.vendor = "Max"
    /\ row' = Analyzed(MaxRow(row))
    /\ UNCHANGED <<batchVars, call, svc, doc, date, recon, util, ui>>

analyzeIsracardFile ==
    /\ row.pc = "raw" /\ row.vendor = "Isracard"
    /\ row' = Analyzed(IsracardRow(row))
    /\ UNCHANGED <<batchVars, call, svc, doc, date, recon, util, ui>>

analyzeMizrahiTfahotFile ==
    /\ row.pc = "raw" /\ row.vendor = "MizrahiTfahot"
    /\ row' = Analyzed(MizrahiRow(row))
    /\ UNCHANGED <<batchVars, call, svc, doc, date, recon, util, ui>>

analyzeDiscountFile ==
    /\ row.pc = "raw" /\ row.vendor = "Discount"
    /\ row' = Analyzed(DiscountRow(row))
    /\ UNCHANGED <<batchVars, call, svc, doc, date, recon, util, ui>>

InitRows ==
    /\ files = <<>> /\ batch = "idle" /\ pc = <<>> /\ loc = <<>> /\ ret = <<>>
    /\ values = <<>> /\ order = <<>> /\ raised = <<>> /\ unhandled = {} /\ out = <<>>
    /\ call = IdleCall /\ svc = IdleSvc
    /\ doc = IdleDoc /\ date = IdleDate /\ recon = IdleRecon /\ util = IdleUtil /\ ui = IdleUi
    /\ \E vendor \in Vendors :
          \E c \in CellsOf(vendor),
             o \in (IF vendor \in TwoColumn THEN OtherColumn ELSE {JSUndefined}),
             swapped \in (IF vendor \in TwoColumn THEN BOOLEAN ELSE {FALSE}) :
                row = RawRow(SourceRow(vendor, c, o, swapped))

NextRows ==
    \/ analyzePoalimFile
    \/ analyzeCalFile
    \/ analyzeMaxFile
    \/ analyzeIsracardFile
    \/ analyzeMizrahiTfahotFile
    \/ analyzeDiscountFile

SpecRows == InitRows /\ [][NextRows]_vars

\* ---- properties of the transformed rows ----

\* s is an unsigned decimal amount: digits, optionally a point and more digits
PlainDecimal(s) ==
    LET a == LeadingDigits(s, 1)
    IN  /\ a >= 1
        /\ \/ a = Len(s)
           \/ /\ a + 1 < Len(s) /\ s[a + 1] = "."
              /\ a + 1 + LeadingDigits(s, a + 2) = Len(s)

\* the number of digits after the decimal point of a plain decimal
Decimals(s) ==
    LET a == LeadingDigits(s, 1) IN IF a = Len(s) THEN 0 ELSE Len(s) - a - 1

\* the value of a plain decimal, scaled by Unit
PlainValue(s) ==
    LET a == LeadingDigits(s, 1)
        d == Decimals(s)
    IN  DigitsValue(s, 1, a) * Unit + (DigitsValue(s, a + 2, d) * Unit) \div Pow10(d)

\* the amount a source cell states: a number, or a string that is a plain decimal
\* with an optional minus sign
SourceAmount(c) ==
    IF IsNum(c) THEN [ok |-> TRUE, v |-> c.v, d |-> 0]
    ELSE IF c.t = "string" /\ PlainDecimal(c.s)
    THEN [ok |-> TRUE, v |-> PlainValue(c.s), d |-> Decimals(c.s)]
    ELSE IF c.t = "string" /\ Len(c.s) > 1 /\ c.s[1] = "-" /\ PlainDecimal(Tail(c.s))
    THEN [ok |-> TRUE, v |-> 0 - PlainValue(Tail(c.s)), d |-> Decimals(Tail(c.s))]
    ELSE [ok |-> FALSE, v |-> 0, d |-> 0]

\* one milliunit of currency as a source value, the resolution of the canonical
\* amount
Milli == Unit \div 1000

\* 1000 * v milliunits for the source value v (scaled by Unit), as an amount
Thousand(v) ==
    (v \div Unit) * (MilliUnit * 1000) + ((v % Unit) * (MilliUnit * 1000)) \div Unit

\* 10 * 10^d * v milliunits for the source value v written with d decimals
TenTimesDigits(v, d) ==
    IF d >= 2 THEN Thousand(v) * Pow10(d - 2) ELSE Thousand(v) \div Pow10(2 - d)

Blank(c) == c.t = "undefined" \/ c = Str(<<>>)

RowDone == row.pc = "done"

\* the row's only populated amount column is the debit / charge column (the credit
\* column), and it states a positive amount
OnlyDebit == RowDone /\ Blank(row.credit) /\ SourceAmount(row.charge).ok
             /\ SourceAmount(row.charge).v > 0
OnlyCredit == RowDone /\ Blank(row.charge) /\ SourceAmount(row.credit).ok
              /\ SourceAmount(row.credit).v > 0

\* the row yielded exactly one transaction and its amount is the number n
\* (milliunits scaled by MilliUnit)
Yields(n) == Len(row.out) = 1 /\ row.out[1].amount = Num(n)

NotANumber(c) == c.t = "string" /\ c.s # <<>> /\ \A i \in 1..Len(c.s) : c.s[i] \notin Digits

\* C10 (as claimed): a row whose amount cell cannot be read as a number yields no
\* transaction
C10_UnparseableRowIsDropped ==
    (RowDone /\ \/ NotANumber(row.charge) /\ Blank(row.credit)
                \/ NotANumber(row.credit) /\ Blank(row.charge))
        => row.out = <<>>

----------------------------------------------------------------------------
(* The vendor analyzers' extract: which rows of a sheet become transactions   *)
(* and which closing balance is reported.                                     *)
(* A content is text or binary; a binary content is a workbook of tabs. The   *)
(* tabs of one workbook carry the same rows here and differ in their balance   *)
(* cell; where the balance cell sits in the sheet is left out.                *)

MaxRows == 3
MaxTabs == 2

\* the rows below the header row:
\*   "data"    a date in the first column and an amount
\*   "empty"   a row without cells
\*   "nodate"  no value in the first column, values in the others
\*   "total"   the first column holds the vendor's total / summary phrase, the
\*             amount columns hold nothing
RowKinds == {"data", "empty", "nodate", "total"}

\* a balance cell: missing, or holding a number
BalanceCells == {JSUndefined, Num(100), Num(250)}

RECURSIVE ScanRows(_, _, _, _)
\* the indices of the rows pushed from position i on by a loop that breaks at a
\* row of a kind in stop and passes over (continue, or a later filter) a row of a
\* kind in skip
ScanRows(rows, i, stop, skip) ==
    IF i > Len(rows) \/ rows[i] \in stop THEN <<>>
    ELSE IF rows[i] \in skip THEN ScanRows(rows, i + 1, stop, skip)
    ELSE <<i>> \o ScanRows(rows, i + 1, stop, skip)

\* analyzeCalFile: break at !row || row.length === 0 || !row[0]; no row is filtered
CalScan(d) ==
    IF ~d.header THEN <<>> ELSE ScanRows(d.rows, 1, {"empty", "nodate"}, {})

\* processMaxSheet: the same break; a row without amount is dropped by isNaN
MaxScan(d) ==
    IF ~d.header THEN <<>> ELSE ScanRows(d.rows, 1, {"empty", "nodate"}, {"total"})

\* analyzeIsracardFile: the domestic loop breaks at an empty row, a row without
\* date and the phrases; the foreign loop passes over empty rows, breaks at the
\* phrases only and pushes a row without date
IsracardScan(d) ==
    IF ~d.header THEN <<>>
    ELSE IF d.foreign THEN ScanRows(d.rows, 1, {"total"}, {"empty"})
    ELSE ScanRows(d.rows, 1, {"empty", "nodate", "total"}, {})

\* extractTransactionsFromWorkbook: with the header row found, a row without date
\* is passed over (continue) and a row without debit and credit is not pushed;
\* without it, sheet_to_json takes the first row for the keys and yields every
\* later row that has cells
MizrahiScan(d) ==
    IF d.header THEN ScanRows(d.rows, 1, {}, {"empty", "nodate", "total"})
    ELSE ScanRows(d.rows, 2, {}, {"empty"})

\* extractTransactionsFromSheet: every row with data and a value under 'תאריך'
DiscountScan(d) ==
    IF ~d.header THEN <<>> ELSE ScanRows(d.rows, 1, {}, {"empty", "nodate"})

\* Papa.parse with header: true and skipEmptyLines: every line with cells is a row
PoalimScan(d) == ScanRows(d.rows, 1, {}, {"empty"})

\* the transactions of tab t: one per pushed row
OfTab(t, idx) == [n \in 1..Len(idx) |-> <<t, idx[n]>>]

Extracted(transactions, finalBalance, byTab) ==
    [k |-> "ok", transactions |-> transactions, finalBalance |-> finalBalance,
     balancesByTab |-> byTab]

Thrown == [k |-> "throw", transactions |-> <<>>, finalBalance |-> JSUndefined,
           balancesByTab |-> {}]

\* a balance cell as the balance found in it: null when the cell is missing
Located(cell) == IF cell.t = "undefined" THEN JSNull ELSE cell

\* analyzeCalFile: the balance of row 3 or null, with or without header row
CalExtract(d) ==
    IF d.text THEN Thrown
    ELSE Extracted(OfTab(1, CalScan(d)), Located(d.balances[1]), {})

\* analyzeIsracardFile: the balance of the total charge row or null
IsracardExtract(d) ==
    IF d.text THEN Thrown
    ELSE Extracted(OfTab(1, IsracardScan(d)), Located(d.balances[1]), {})

\* processMaxSheet of tab t: without header row the balance is not looked for
processMaxSheet(d, t) ==
    IF ~d.header THEN [transactions |-> <<>>, finalBalance |-> JSNull]
    ELSE [transactions |-> OfTab(t, MaxScan(d)), finalBalance |-> Located(d.balances[t])]

RECURSIVE MaxTabsFrom(_, _, _)
\* analyzeMaxFile's loop over the tabs from tab t on, acc the result so far
MaxTabsFrom(d, t, acc) ==
    IF t > Len(d.balances) THEN acc
    ELSE LET s == processMaxSheet(d, t)
             found == s.finalBalance.t # "null" /\ ~isNaN(s.finalBalance)
         IN  MaxTabsFrom(d, t + 1,
               [transactions |-> acc.transactions \o s.transactions,
                totalBalance |-> IF found THEN acc.totalBalance + s.finalBalance.v
                                 ELSE acc.totalBalance,
                balancesByTab |-> IF found
                                  THEN acc.balancesByTab \cup {<<t, s.finalBalance.v>>}
                                  ELSE acc.balancesByTab])

\* the first tab only
MaxExtractFirstTab(d) ==
    IF d.text THEN Thrown
    ELSE LET s == processMaxSheet(d, 1)
             found == s.finalBalance.t # "null" /\ ~isNaN(s.finalBalance)
         IN  Extracted(s.transactions, Num(IF found THEN s.finalBalance.v ELSE 0),
                       IF found THEN {<<1, s.finalBalance.v>>} ELSE {})

\* analyzeMaxFile: totalBalance starts at 0
MaxExtract(d) ==
    IF d.text THEN Thrown
    ELSE LET r == MaxTabsFrom(d, 1, [transactions |-> <<>>, totalBalance |-> 0,
                                     balancesByTab |-> {}])
         IN  Extracted(r.transactions, Num(r.totalBalance), r.balancesByTab)

\* findBalanceInWorkbook: cell B1 of the second sheet, null in a one-sheet workbook
findBalanceInWorkbook(d) ==
    IF Len(d.balances) > 1 THEN Located(d.balances[2]) ELSE JSNull

\* analyzeMizrahiTfahotFile: the transactions of the second sheet (the first in a
\* one-sheet workbook); a null balance is replaced by 0
MizrahiExtractKeepNull(d) ==
    IF d.text THEN Thrown
    ELSE Extracted(OfTab(IF Len(d.balances) > 1 THEN 2 ELSE 1, MizrahiScan(d)),
                   findBalanceInWorkbook(d), {})
MizrahiExtract(d) ==
    IF d.text THEN Thrown
    ELSE LET b == findBalanceInWorkbook(d)
         IN  Extracted(OfTab(IF Len(d.balances) > 1 THEN 2 ELSE 1, MizrahiScan(d)),
                       IF b.t = "null" THEN Num(0) ELSE b, {})

\* analyzeDiscountFile: text and binary are both read; cell E9 of the first sheet,
\* a null balance is replaced by 0
DiscountExtract(d) ==
    LET b == Located(d.balances[1])
    IN  Extracted(OfTab(1, DiscountScan(d)), IF b.t = "null" THEN Num(0) ELSE b, {})

\* analyzePoalimFile: the balance cell of the last row; reading it from the last
\* row of an empty row list is a TypeError
PoalimExtract(d) ==
    IF ~d.text THEN Thrown
    ELSE IF PoalimScan(d) = <<>> THEN Thrown
    ELSE Extracted(OfTab(1, PoalimScan(d)), Located(d.balances[1]), {})

\* ---- the contents analysed ----

RowLists == SeqsUpTo(RowKinds, MaxRows)

BalanceLists == SeqsUpTo(BalanceCells, MaxTabs) \ {<<>>}

RawDoc(vendor, text, header, foreign, rows, balances) ==
    [pc |-> "raw", vendor |-> vendor, text |-> text, header |-> header,
     foreign |-> foreign, rows |-> rows, balances |-> balances, result |-> Thrown]

ExtractedDoc(r) == [doc EXCEPT !.pc = "done", !.result = r]

ExtractCal ==
    /\ doc.pc = "raw" /\ doc.vendor = "Cal"
    /\ doc' = ExtractedDoc(CalExtract(doc))
    /\ UNCHANGED <<batchVars, call, svc, row, date, recon, util, ui>>

ExtractIsracard ==
    /\ doc.pc = "raw" /\ doc.vendor = "Isracard"
    /\ doc' = ExtractedDoc(IsracardExtract(doc))
    /\ UNCHANGED <<batchVars, call, svc, row, date, recon, util, ui>>

ExtractMax ==
    /\ doc.pc = "raw" /\ doc.vendor = "Max"
    /\ doc' = ExtractedDoc(MaxExtract(doc))
    /\ UNCHANGED <<batchVars, call, svc, row, date, recon, util, ui>>

ExtractMizrahiTfahot ==
    /\ doc.pc = "raw" /\ doc.vendor = "MizrahiTfahot"
    /\ doc' = ExtractedDoc(MizrahiExtract(doc))
    /\ UNCHANGED <<batchVars, call, svc, row, date, recon, util, ui>>

ExtractDiscount ==
    /\ doc.pc = "raw" /\ doc.vendor = "Discount"
    /\ doc' = ExtractedDoc(DiscountExtract(doc))
    /\ UNCHANGED <<batchVars, call, svc, row, date, recon, util, ui>>

ExtractPoalim ==
    /\ doc.pc = "raw" /\ doc.vendor = "Poalim"
    /\ doc' = ExtractedDoc(PoalimExtract(doc))
    /\ UNCHANGED <<batchVars, call, svc, row, date, recon, util, ui>>

InitExtract ==
    /\ files = <<>> /\ batch = "idle" /\ pc = <<>> /\ loc = <<>> /\ ret = <<>>
    /\ values = <<>> /\ order = <<>> /\ raised = <<>> /\ unhandled = {} /\ out = <<>>
    /\ call = IdleCall /\ svc = IdleSvc
    /\ row = IdleRow /\ date = IdleDate /\ recon = IdleRecon /\ util = IdleUtil /\ ui = IdleUi
    /\ \E vendor \in Vendors, text \in BOOLEAN, header \in BOOLEAN :
          \E foreign \in (IF vendor = "Isracard" THEN BOOLEAN ELSE {FALSE}),
             rows \in RowLists, balances \in BalanceLists :
                doc = RawDoc(vendor, text, header, foreign, rows, balances)

NextExtract ==
    \/ ExtractCal
    \/ ExtractIsracard
    \/ ExtractMax
    \/ ExtractMizrahiTfahot
    \/ ExtractDiscount
    \/ ExtractPoalim

SpecExtract == InitExtract /\ [][NextExtract]_vars

\* ---- properties of the extract ----

DocDone == doc.pc = "done"

\* the content has the type the vendor's analyzer reads
ExpectedType ==
    CASE doc.vendor = "Poalim" -> doc.text
      [] doc.vendor = "Discount" -> TRUE
      [] OTHER -> ~doc.text

\* no closing balance is where the vendor's analyzer looks for it
NoBalance ==
    CASE doc.vendor = "Max" ->
            ~doc.header \/ \A t \in 1..Len(doc.balances) : doc.balances[t].t = "undefined"
      [] doc.vendor = "MizrahiTfahot" ->
            Len(doc.balances) = 1 \/ doc.balances[2].t = "undefined"
      [] OTHER -> doc.balances[1].t = "undefined"

NoTransactions == doc.rows = <<>> \/ (doc.vendor # "Poalim" /\ ~doc.header)

\* C12 (as claimed): a content of the expected type without transactions yields an
\* empty transaction list and no exception, and extract throws only for a content
\* of the wrong type
C12_EmptyListNeverThrows ==
    /\ (DocDone /\ ExpectedType /\ NoTransactions) =>
          doc.result.k = "ok" /\ doc.result.transactions = <<>>
    /\ (DocDone /\ doc.result.k = "throw") => ~ExpectedType

----------------------------------------------------------------------------
(* Reconciliation: from the balance an analyzer returns to the difference and *)
(* the note of the balances report. Numbers are scaled by Unit.               *)

\* the analyzer of the vendor applied to the content d
VendorExtract(d) ==
    CASE d.vendor = "Cal" -> CalExtract(d)
      [] d.vendor = "Isracard" -> IsracardExtract(d)
      [] d.vendor = "Max" -> MaxExtract(d)
      [] d.vendor = "MizrahiTfahot" -> MizrahiExtract(d)
      [] d.vendor = "Discount" -> DiscountExtract(d)
      [] OTHER -> PoalimExtract(d)

\* the closing balance written in the statement, in major currency units: none,
\* 0, 14.8, 14.5 and -3
StatementBalances ==
    {JSUndefined, Num(0), Num((148 * Unit) \div 10), Num((145 * Unit) \div 10),
     Num(0 - 3 * Unit)}

\* the ledger account's cleared_balance, in milliunits: 0, 14500, 14800 and -3000
ClearedBalances == {Num(0), Num(14500 * Unit), Num(14800 * Unit), Num(0 - 3000 * Unit)}

\* a statement of the vendor with one data row and the closing balance cell where
\* the vendor's analyzer looks for it
Statement(vendor, cell) ==
    RawDoc(vendor, vendor = "Poalim", TRUE, FALSE, <<"data">>,
           IF vendor = "MizrahiTfahot" THEN <<JSUndefined, cell>> ELSE <<cell>>)

\* a || b
JSOr(a, b) == IF JSTruthy(a) THEN a ELSE b

NewRecon(vendor, cell) ==
    [pc |-> "file", vendor |-> vendor, cell |-> cell, finalBalance |-> JSUndefined,
     cleared |-> Num(0), fileBalance |-> JSUndefined, difference |-> JSNull,
     hasDifference |-> FALSE, note |-> "none"]

\* the component's analyzeFile: analysis?.finalBalance || analysis?.data?.finalBalance;
\* the analysis result has no top-level finalBalance
ComponentAnalyzeFile ==
    /\ recon.pc = "file"
    /\ recon' = [recon EXCEPT
                   !.pc = "analyzed",
                   !.finalBalance =
                       JSOr(JSUndefined,
                            VendorExtract(Statement(recon.vendor, recon.cell)).finalBalance)]
    /\ UNCHANGED <<batchVars, call, svc, row, doc, date, util, ui>>

\* handleSendToYNAB: the account details are fetched and the file's finalBalance
\* is attached as fileBalance; a failed fetch leaves no account row
handleSendToYNAB ==
    /\ recon.pc = "analyzed"
    /\ \/ \E c \in ClearedBalances :
             recon' = [recon EXCEPT !.pc = "fetched", !.cleared = c,
                                    !.fileBalance = recon.finalBalance]
       \/ recon' = [recon EXCEPT !.pc = "norow"]
    /\ UNCHANGED <<batchVars, call, svc, row, doc, date, util, ui>>

\* fileBalance - account.cleared_balance as the report computes it: the operands
\* are subtracted as they are
Difference(fileBalance, cleared) == Num(fileBalance.v - cleared.v)

\* the reconcileNote under the difference
ReconcileNoteSwapped(hasDifference, difference) ==
    IF ~hasDifference THEN "none" ELSE IF difference.v < 0 THEN "extra" ELSE "missing"
ReconcileNote(hasDifference, difference) ==
    IF ~hasDifference THEN "none" ELSE IF difference.v < 0 THEN "missing" ELSE "extra"

\* AccountBalancesReport, one account row
AccountBalancesReport ==
    /\ recon.pc = "fetched"
    /\ LET fileBalance == IF recon.fileBalance.t # "undefined" THEN recon.fileBalance
                          ELSE JSNull
           difference == IF fileBalance.t # "null" THEN Difference(fileBalance, recon.cleared)
                         ELSE JSNull
           hasDifference == difference.t # "null" /\ IsNum(difference) /\ difference.v # 0
       IN  recon' = [recon EXCEPT
                       !.pc = "rendered",
                       !.difference = difference,
                       !.hasDifference = hasDifference,
                       !.note = ReconcileNote(hasDifference, difference)]
    /\ UNCHANGED <<batchVars, call, svc, row, doc, date, util, ui>>

InitRecon ==
    /\ files = <<>> /\ batch = "idle" /\ pc = <<>> /\ loc = <<>> /\ ret = <<>>
    /\ values = <<>> /\ order = <<>> /\ raised = <<>> /\ unhandled = {} /\ out = <<>>
    /\ call = IdleCall /\ svc = IdleSvc
    /\ row = IdleRow /\ doc = IdleDoc /\ date = IdleDate /\ util = IdleUtil /\ ui = IdleUi
    /\ \E vendor \in Vendors, cell \in StatementBalances : recon = NewRecon(vendor, cell)

NextRecon ==
    \/ ComponentAnalyzeFile
    \/ handleSendToYNAB
    \/ AccountBalancesReport

SpecRecon == InitRecon /\ [][NextRecon]_vars

Rendered == recon.pc = "rendered"

\* C13 (as claimed): the difference is fileBalance - clearedBalance in milliunits:
\* a statement balance of b currency units and a cleared balance of c milliunits
\* give the difference 1000 * b - c
C13_DifferenceInOneUnit ==
    (Rendered /\ IsNum(recon.cell)) =>
        recon.difference = Num(1000 * recon.cell.v - recon.cleared.v)

MaxParts == 4

\* value.includes(c)
Includes(s, c) == \E i \in 1..Len(s) : s[i] = c

\* value.split(c): the substrings between the occurrences of c
RECURSIVE Split(_, _)
Split(s, c) ==
    IF ~Includes(s, c) THEN <<s>>
    ELSE LET i == CHOOSE j \in 1..Len(s) : s[j] = c /\ \A k \in 1..(j - 1) : s[k] # c
         IN  <<SubSeq(s, 1, i - 1)>> \o Split(SubSeq(s, i + 1, Len(s)), c)

\* s.padStart(n, c)
RECURSIVE PadStart(_, _, _)
PadStart(s, n, c) == IF Len(s) >= n THEN s ELSE PadStart(<<c>> \o s, n, c)

\* const [a, b, c] = parts: the i-th element, undefined past the end
Element(parts, i) == IF i <= Len(parts) THEN Str(parts[i]) ELSE JSUndefined

\* `${year}-${month}-${day}`
DateString(year, month, day) == Str(year \o <<"-">> \o month \o <<"-">> \o day)

\* Cal: DD/MM/YY, a missing or empty part returns the value
CalDateTransform(value) ==
    IF ~JSTruthy(value) \/ value.t # "string" \/ ~Includes(value.s, "/") THEN value
    ELSE LET parts == Split(value.s, "/")
             day == Element(parts, 1)
             month == Element(parts, 2)
             year == Element(parts, 3)
         IN  IF ~JSTruthy(day) \/ ~JSTruthy(month) \/ ~JSTruthy(year) THEN value
             ELSE DateString(<<"2", "0">> \o year.s,
                             PadStart(month.s, 2, "0"), PadStart(day.s, 2, "0"))

\* Mizrahi Tfahot: DD/MM/YY of the trimmed value, '20' before the year
MizrahiDateTransform(value) ==
    IF ~JSTruthy(value) \/ value.t # "string" \/ ~Includes(value.s, "/") THEN value
    ELSE LET parts == Split(Trim(value.s), "/")
             day == Element(parts, 1)
             month == Element(parts, 2)
             year == Element(parts, 3)
         IN  DateString(<<"2", "0">> \o StringOf(year),
                        PadStart(month.s, 2, "0"), PadStart(day.s, 2, "0"))

\* Isracard: DD/MM/YYYY, the year as it is
IsracardDateTransform(value) ==
    IF ~JSTruthy(value) \/ value.t # "string" \/ ~Includes(value.s, "/") THEN value
    ELSE LET parts == Split(value.s, "/")
             day == Element(parts, 1)
             month == Element(parts, 2)
             year == Element(parts, 3)
         IN  DateString(StringOf(year),
                        PadStart(month.s, 2, "0"), PadStart(day.s, 2, "0"))

\* Max: DD-MM-YYYY, the year as it is
MaxDateTransform(value) ==
    IF ~JSTruthy(value) \/ value.t # "string" \/ ~Includes(value.s, "-") THEN value
    ELSE LET parts == Split(value.s, "-")
             day == Element(parts, 1)
             month == Element(parts, 2)
             year == Element(parts, 3)
         IN  DateString(StringOf(year),
                        PadStart(month.s, 2, "0"), PadStart(day.s, 2, "0"))

\* the civil date z days after 0000-03-01
CivilFromDays(z) ==
    LET era == z \div 146097
        doe == z - era * 146097
        yoe == (doe - doe \div 1460 + doe \div 36524 - doe \div 146096) \div 365
        doy == doe - (365 * yoe + yoe \div 4 - yoe \div 100)
        mp == (5 * doy + 2) \div 153
        d == doy - (153 * mp + 2) \div 5 + 1
        m == IF mp < 10 THEN mp + 3 ELSE mp - 9
        y == yoe + era * 400 + (IF m <= 2 THEN 1 ELSE 0)
    IN  [year |-> y, month |-> m, day |-> d]

\* 1899-12-30, new Date(1900, 0, -1), in days after 0000-03-01
ExcelEpoch == 693899

\* the local calendar day of excelEpoch + serial days falls a day early where
\* the zone's offset in 1899 is ahead of the offset on that day
ZoneShifts == {0, 0 - 1}

\* Discount: an Excel serial number, or M/D/YY with '20' before a 2-digit year
DiscountDateTransform(value, shift) ==
    LET n == ToNumber(value) IN
    IF IsNum(n)
    THEN LET c == CivilFromDays(ExcelEpoch + n.v \div Unit + shift)
         IN  DateString(NatToString(c.year), PadStart(NatToString(c.month), 2, "0"),
                        PadStart(NatToString(c.day), 2, "0"))
    ELSE IF value.t = "string" /\ Includes(value.s, "/")
              /\ Len(Split(Trim(value.s), "/")) = 3
    THEN LET parts == Split(Trim(value.s), "/")
             month == PadStart(parts[1], 2, "0")
             day == PadStart(parts[2], 2, "0")
             year == IF Len(parts[3]) = 2 THEN <<"2", "0">> \o parts[3] ELSE parts[3]
         IN  DateString(year, month, day)
    ELSE value

\* the parts date source strings are written with
DateParts == {<<>>, <<"5">>, <<"1", "5">>, <<"0", "4">>, <<"2", "5">>,
              <<"2", "0", "2", "5">>}

Separators == {"/", "-"}

\* parts.join(sep)
RECURSIVE Join(_, _)
Join(parts, sep) ==
    IF Len(parts) = 1 THEN parts[1]
    ELSE parts[1] \o <<sep>> \o Join(Tail(parts), sep)

\* date cells that are no strings
OtherDateCells == {JSUndefined, JSNull, Num(0), Num(45762 * Unit)}

RawDate(vendor, value) == [pc |-> "raw", vendor |-> vendor, value |-> value]

TransformedDate(d, result) ==
    [pc |-> "done", vendor |-> d.vendor, value |-> d.value, out |-> result]

TransformCalDate ==
    /\ date.pc = "raw" /\ date.vendor = "Cal"
    /\ date' = TransformedDate(date, CalDateTransform(date.value))
    /\ UNCHANGED <<batchVars, call, svc, row, doc, recon, util, ui>>

TransformMizrahiDate ==
    /\ date.pc = "raw" /\ date.vendor = "MizrahiTfahot"
    /\ date' = TransformedDate(date, MizrahiDateTransform(date.value))
    /\ UNCHANGED <<batchVars, call, svc, row, doc, recon, util, ui>>

TransformIsracardDate ==
    /\ date.pc = "raw" /\ date.vendor = "Isracard"
    /\ date' = TransformedDate(date, IsracardDateTransform(date.value))
    /\ UNCHANGED <<batchVars, call, svc, row, doc, recon, util, ui>>

TransformMaxDate ==
    /\ date.pc = "raw" /\ date.vendor = "Max"
    /\ date' = TransformedDate(date, MaxDateTransform(date.value))
    /\ UNCHANGED <<batchVars, call, svc, row, doc, recon, util, ui>>

TransformDiscountDate ==
    /\ date.pc = "raw" /\ date.vendor = "Discount"
    /\ \E shift \in ZoneShifts :
         date' = TransformedDate(date, DiscountDateTransform(date.value, shift))
    /\ UNCHANGED <<batchVars, call, svc, row, doc, recon, util, ui>>

\* the vendors whose date mapping has a transform
DateVendors == {"Cal", "MizrahiTfahot", "Isracard", "Max", "Discount"}

InitDates ==
    /\ files = <<>> /\ batch = "idle" /\ pc = <<>> /\ loc = <<>> /\ ret = <<>>
    /\ values = <<>> /\ order = <<>> /\ raised = <<>> /\ unhandled = {} /\ out = <<>>
    /\ call = IdleCall /\ svc = IdleSvc
    /\ row = IdleRow /\ doc = IdleDoc /\ recon = IdleRecon /\ util = IdleUtil /\ ui = IdleUi
    /\ \E vendor \in DateVendors :
         \/ \E cell \in OtherDateCells : date = RawDate(vendor, cell)
         \/ \E n \in 1..MaxParts, sep \in Separators, blank \in BOOLEAN :
              \E parts \in [1..n -> DateParts] :
                 date = RawDate(vendor,
                          Str((IF blank THEN <<" ">> ELSE <<>>) \o Join(parts, sep)))

NextDates ==
    \/ TransformCalDate
    \/ TransformMizrahiDate
    \/ TransformIsracardDate
    \/ TransformMaxDate
    \/ TransformDiscountDate

SpecDates == InitDates /\ [][NextDates]_vars

DateDone == date.pc = "done"

AllDigits(s) == \A i \in 1..Len(s) : s[i] \in Digits

\* s is DD/MM/YY (yearLen 2) or DD/MM/YYYY (yearLen 4) of a calendar day
ValidDate(s, yearLen) ==
    LET parts == Split(s, "/") IN
    /\ Len(parts) = 3
    /\ Len(parts[1]) = 2 /\ Len(parts[2]) = 2 /\ Len(parts[3]) = yearLen
    /\ \A i \in 1..3 : AllDigits(parts[i])
    /\ DigitsValue(parts[1], 1, 2) \in 1..31
    /\ DigitsValue(parts[2], 1, 2) \in 1..12

\* s matches ^\d{4}-\d{2}-\d{2}$
IsoDate(s) ==
    /\ Len(s) = 10
    /\ s[5] = "-" /\ s[8] = "-"
    /\ \A i \in {1, 2, 3, 4, 6, 7, 9, 10} : s[i] \in Digits

\* result is an ISO date with the day, the month and the year mod 100 of s
RoundTrips(result, s) ==
    LET parts == Split(s, "/") IN
    /\ result.t = "string" /\ IsoDate(result.s)
    /\ DigitsValue(result.s, 9, 2) = DigitsValue(parts[1], 1, 2)
    /\ DigitsValue(result.s, 6, 2) = DigitsValue(parts[2], 1, 2)
    /\ DigitsValue(result.s, 1, 4) % 100 = DigitsValue(parts[3], 1, Len(parts[3])) % 100

\* C15 as stated: every vendor's date transform turns every valid DD/MM/YY and
\* DD/MM/YYYY input into a 10-character YYYY-MM-DD string with the input's
\* day, month and year mod 100.
C15_DateRoundTrip ==
    (/\ DateDone /\ date.value.t = "string"
     /\ ValidDate(date.value.s, 2) \/ ValidDate(date.value.s, 4))
        => RoundTrips(date.out, date.value.s)

\* the separator a vendor's date transform splits on
SeparatorOf(vendor) == IF vendor = "Max" THEN "-" ELSE "/"

\* s has no separator, or not exactly three parts
NonConforming(s, sep) == ~Includes(s, sep) \/ Len(Split(s, sep)) # 3

\* C16: a date source string without the vendor's separator, or that does not
\* split into exactly three parts, is returned unchanged.
C16_NonConformingUnchanged ==
    (/\ DateDone /\ date.value.t = "string"
     /\ NonConforming(date.value.s, SeparatorOf(date.vendor)))
        => date.out = date.value

\* the row's populated amount columns all state a numeric source amount
NumericSource ==
    /\ RowDone
    /\ SourceAmount(row.charge).ok \/ SourceAmount(row.credit).ok
    /\ SourceAmount(row.charge).ok \/ Blank(row.charge)
    /\ SourceAmount(row.credit).ok \/ Blank(row.credit)

\* the amount is a whole number of milliunits
WholeMilliunits(amount) == IsNum(amount) /\ amount.v % MilliUnit = 0

\* C17: every transaction emitted for a row with a numeric source amount has a
\* signed integer number of milliunits as its amount.
C17_AmountIsIntegerMilliunits ==
    NumericSource => \A i \in 1..Len(row.out) : WholeMilliunits(row.out[i].amount)

\* both amount columns of the row state an amount of at least one milliunit
BothPopulated ==
    /\ RowDone /\ row.vendor \in TwoColumn
    /\ SourceAmount(row.charge).ok /\ SourceAmount(row.charge).v >= Milli
    /\ SourceAmount(row.credit).ok /\ SourceAmount(row.credit).v >= Milli

\* C18 as stated: when both the debit and the credit column are populated, the
\* value of the mapping that comes first in fieldMappings (debit) is kept.
C18_FirstMappingWins ==
    /\ (BothPopulated /\ row.vendor = "Poalim") =>
          row.out = <<Transaction(PoalimTransform(row.charge, -10))>>
    /\ (BothPopulated /\ row.vendor = "MizrahiTfahot") =>
          row.out = <<Transaction(MizrahiTransform(StringOf(row.charge), -1000))>>

\* C18, per vendor: Poalim keeps the value of the first mapping (debit), Mizrahi
\* Tfahot the value of the last one (credit).
C18_PoalimFirstMizrahiLast ==
    /\ (BothPopulated /\ row.vendor = "Poalim") =>
          /\ row.out = <<Transaction(PoalimTransform(row.charge, -10))>>
          /\ row.out[1].amount.v < 0
    /\ (BothPopulated /\ row.vendor = "MizrahiTfahot") =>
          /\ row.out = <<Transaction(MizrahiTransform(StringOf(row.credit), 1000))>>
          /\ row.out[1].amount.v > 0

\* a Mizrahi Tfahot row with debit 0.5 and credit 5 became +5000 milliunits
C18_Witness ==
    /\ RowDone /\ row.vendor = "MizrahiTfahot"
    /\ row.charge = Str(<<"0", ".", "5">>) /\ row.credit = Str(<<"5">>)
    /\ Yields(5000 * MilliUnit)

\* the kinds of row that end a transaction block
BlockEnds == {"empty", "nodate", "total"}

\* row i of the content lies before the first row that ends the block
BeforeBlockEnd(i) == \A j \in 1..i : doc.rows[j] \notin BlockEnds

\* C19: scanning stops at the first row that is empty, has no date or is the
\* vendor's total row: every emitted transaction comes from a row before it.
C19_ScanStopsAtBlockEnd ==
    (DocDone /\ doc.result.k = "ok") =>
        \A n \in 1..Len(doc.result.transactions) :
            BeforeBlockEnd(doc.result.transactions[n][2])

\* the tabs of the workbook on which processMaxSheet finds a balance
TabsWithBalance ==
    {t \in 1..Len(doc.balances) : doc.header /\ doc.balances[t].t # "undefined"}

\* the sum of the balances of the tabs in S
RECURSIVE SumOfTabs(_)
SumOfTabs(S) ==
    IF S = {} THEN 0
    ELSE LET t == CHOOSE x \in S : TRUE
         IN  doc.balances[t].v + SumOfTabs(S \ {t})

\* C20: for a Max workbook, finalBalance is the sum of the balances found on its
\* tabs and balancesByTab maps exactly the tabs with a balance to that balance.
C20_TotalIsSumOfTabs ==
    (DocDone /\ doc.vendor = "Max" /\ doc.result.k = "ok") =>
        /\ doc.result.finalBalance = Num(SumOfTabs(TabsWithBalance))
        /\ doc.result.balancesByTab = {<<t, doc.balances[t].v>> : t \in TabsWithBalance}

\* a workbook with 100 on the first tab and 250 on the second gave 350
C20_Witness ==
    /\ DocDone /\ doc.vendor = "Max" /\ doc.header
    /\ doc.balances = <<Num(100), Num(250)>>
    /\ doc.result.finalBalance = Num(350)
    /\ doc.result.balancesByTab = {<<1, 100>>, <<2, 250>>}

\* ---------------------------------------------------------------------------
\* Text utilities: the closing balance of the ledger CSV, the amount in a line
\* of Hebrew text, the delimiter of a CSV text
\* ---------------------------------------------------------------------------

\* the most characters of a text handed to a utility
MaxText == 5

\* analyzePoalimFile: the final balance read from the last row's balance cell
PoalimFinalBalance(cell) ==
    IF ~JSTruthy(cell) THEN JSNull
    ELSE parseFloat(ReplaceFirst(StringOf(cell), ","))

\* the length of the match of \d{1,3}(,\d{3})*(\.\d{1,2})? at position i of s, 0
\* without a digit there; every later part is optional and greedy, and the two
\* other alternatives of the pattern start with a digit too, so they never match
RECURSIVE CommaGroups(_, _)
CommaGroups(s, j) ==
    IF j + 3 <= Len(s) /\ s[j] = "," /\ LeadingDigits(s, j + 1) >= 3
    THEN 4 + CommaGroups(s, j + 4) ELSE 0

AmountMatch(s, i) ==
    LET lead == LeadingDigits(s, i)
        a == IF lead > 3 THEN 3 ELSE lead
        g == CommaGroups(s, i + a)
        j == i + a + g
        frac == IF j <= Len(s) /\ s[j] = "." THEN LeadingDigits(s, j + 1) ELSE 0
        f == IF frac > 2 THEN 2 ELSE frac
    IN  IF a = 0 THEN 0 ELSE a + g + (IF f > 0 THEN 1 + f ELSE 0)

\* text.match(regex) with the g flag: the matches from position i on, in order
RECURSIVE AmountMatches(_, _)
AmountMatches(s, i) ==
    IF i > Len(s) THEN <<>>
    ELSE LET n == AmountMatch(s, i)
         IN  IF n = 0 THEN AmountMatches(s, i + 1)
             ELSE <<SubSeq(s, i, i + n - 1)>> \o AmountMatches(s, i + n)

\* the loop that keeps the first match longer than every earlier one
RECURSIVE LongestMatch(_, _, _)
LongestMatch(matches, n, longest) ==
    IF n > Len(matches) THEN longest
    ELSE LongestMatch(matches, n + 1,
                      IF Len(matches[n]) > Len(longest) THEN matches[n] ELSE longest)

extractAmountFromHebrewText(value) ==
    IF ~JSTruthy(value) THEN JSNull
    ELSE LET matches == AmountMatches(value.s, 1)
         IN  IF matches = <<>> THEN JSNull
             ELSE LET amount == parseFloat(ReplaceAll(LongestMatch(matches, 1, <<>>), ","))
                  IN  IF isNaN(amount) THEN JSNull ELSE amount

\* the candidates, in the order they are tried
Delimiters == <<",", ";", "\t", "|">>

\* (line.match(new RegExp(delimiter, 'g')) || []).length: the pattern '|' is the
\* alternation of two empty patterns and matches at every position of the line
MatchCount(line, delimiter) ==
    IF delimiter = "|" THEN Len(line) + 1
    ELSE Cardinality({i \in 1..Len(line) : line[i] = delimiter})

\* the first candidate from n on whose count exceeds best.count, else best
RECURSIVE BestDelimiter(_, _, _)
BestDelimiter(counts, n, best) ==
    IF n > Len(counts) THEN best
    ELSE BestDelimiter(counts, n + 1,
                       IF counts[n].count > best.count THEN counts[n] ELSE best)

RECURSIVE TotalCount(_, _)
TotalCount(lines, delimiter) ==
    IF lines = <<>> THEN 0
    ELSE MatchCount(Head(lines), delimiter) + TotalCount(Tail(lines), delimiter)

\* detectDelimiter of fileAnalyzer.ts: the counts of the first line
detectDelimiter(csvText) ==
    LET firstLine == Split(csvText, "\n")[1]
        counts == [n \in 1..Len(Delimiters) |->
                     [delimiter |-> Delimiters[n],
                      count |-> MatchCount(firstLine, Delimiters[n])]]
    IN  BestDelimiter(counts, 1, [delimiter |-> ",", count |-> 0]).delimiter

\* detectDelimiter of the earlier revision: the counts of the first five lines
detectDelimiterFiveLines(csvText) ==
    LET all == Split(csvText, "\n")
        lines == SubSeq(all, 1, IF Len(all) > 5 THEN 5 ELSE Len(all))
        counts == [n \in 1..Len(Delimiters) |->
                     [delimiter |-> Delimiters[n],
                      count |-> TotalCount(lines, Delimiters[n])]]
    IN  BestDelimiter(counts, 1, [delimiter |-> ",", count |-> 0]).delimiter

\* the characters of balance cells, of text lines and of CSV texts
BalanceAlphabet == {"0", "1", ",", "."}
LineAlphabet == {"0", "1", ",", ".", "x"}
CsvAlphabet == {",", ";", "\t", "|", "a", "\n"}

RawText(fn, arg) == [pc |-> "raw", fn |-> fn, arg |-> arg]

Applied(result) == [pc |-> "done", fn |-> util.fn, arg |-> util.arg, out |-> result]

ReadPoalimBalance ==
    /\ util.pc = "raw" /\ util.fn = "balance"
    /\ util' = Applied(PoalimFinalBalance(util.arg))
    /\ UNCHANGED <<batchVars, call, svc, row, doc, date, recon, ui>>

ExtractAmount ==
    /\ util.pc = "raw" /\ util.fn = "amount"
    /\ util' = Applied(extractAmountFromHebrewText(util.arg))
    /\ UNCHANGED <<batchVars, call, svc, row, doc, date, recon, ui>>

DetectDelimiter ==
    /\ util.pc = "raw" /\ util.fn = "delimiter"
    /\ util' = Applied(detectDelimiter(util.arg))
    /\ UNCHANGED <<batchVars, call, svc, row, doc, date, recon, ui>>

DetectDelimiterFiveLines ==
    /\ util.pc = "raw" /\ util.fn = "delimiter5"
    /\ util' = Applied(detectDelimiterFiveLines(util.arg))
    /\ UNCHANGED <<batchVars, call, svc, row, doc, date, recon, ui>>

\* ---- the request of createTransactions ----

\* the transactions a statement can hand to createTransactions
TransactionUniverse ==
    [date : {"", "2024-01-05", "2024-01-06"}, payee_name : {"super", "bakery"},
     account_id : {"A1"}, amount : {Num(0 - 50 * Unit), NaN}]

\* the filter of createTransactions: date, payee and account are present and the
\* amount is a number that is not NaN
ValidTransaction(t) ==
    /\ t.date # "" /\ t.payee_name # "" /\ t.account_id # ""
    /\ IsNum(t.amount)

validTransactions(transactions) == SelectSeq(transactions, ValidTransaction)

\* `YNAB:${t.amount}:${t.date}:1`
ImportId(t) ==
    [prefix |-> "YNAB", amount |-> t.amount.v, date |-> t.date, occurrence |-> 1]

\* what createTransactions posts, or the error it throws before posting
createTransactions(transactions) ==
    LET valid == validTransactions(transactions) IN
    IF Len(valid) = 0
    THEN [k |-> "thrown", message |-> "No valid transactions to create", body |-> <<>>]
    ELSE [k |-> "posted", message |-> "",
          body |-> [i \in 1..Len(valid) |->
                      [account_id |-> valid[i].account_id, date |-> valid[i].date,
                       amount |-> valid[i].amount, payee_name |-> valid[i].payee_name,
                       import_id |-> ImportId(valid[i])]]]

CreateTransactions ==
    /\ util.pc = "raw" /\ util.fn = "create"
    /\ util' = Applied(createTransactions(util.arg))
    /\ UNCHANGED <<batchVars, call, svc, row, doc, date, recon, ui>>


InitUtil ==
    /\ files = <<>> /\ batch = "idle" /\ pc = <<>> /\ loc = <<>> /\ ret = <<>>
    /\ values = <<>> /\ order = <<>> /\ raised = <<>> /\ unhandled = {} /\ out = <<>>
    /\ call = IdleCall /\ svc = IdleSvc
    /\ row = IdleRow /\ doc = IdleDoc /\ date = IdleDate /\ recon = IdleRecon
    /\ ui = IdleUi
    /\ \E n \in 0..MaxText :
         \/ \E s \in [1..n -> BalanceAlphabet] : util = RawText("balance", Str(s))
         \/ \E s \in [1..n -> LineAlphabet] : util = RawText("amount", Str(s))
         \/ \E s \in [1..n -> CsvAlphabet], fn \in {"delimiter", "delimiter5"} :
              util = RawText(fn, s)
         \/ \E v \in {JSNull, JSUndefined} : util = RawText("amount", v)
         \/ /\ n <= MaxRows
            /\ \E ts \in [1..n -> TransactionUniverse] : util = RawText("create", ts)

NextUtil ==
    \/ ReadPoalimBalance
    \/ ExtractAmount
    \/ DetectDelimiter
    \/ DetectDelimiterFiveLines
    \/ CreateTransactions

SpecUtil == InitUtil /\ [][NextUtil]_vars

UtilDone(fn) == util.pc = "done" /\ util.fn = fn

\* s is a decimal number whose integer digits are separated by commas: every comma
\* stands between two digits and before the decimal point
CommaSeparated(s) ==
    /\ PlainDecimal(ReplaceAll(s, ","))
    /\ \A i \in 1..Len(s) :
          s[i] = "," => /\ i > 1 /\ i < Len(s)
                        /\ s[i - 1] \in Digits /\ s[i + 1] \in Digits
                        /\ \A j \in 1..i : s[j] # "."

\* C21: the final balance of the ledger CSV is the last row's running-balance
\* value parsed as a float after every comma separator has been removed from it.
C21_BalanceWithoutCommas ==
    (UtilDone("balance") /\ CommaSeparated(util.arg.s)) =>
        util.out = Num(PlainValue(ReplaceAll(util.arg.s, ",")))

\* s is a numeric text: digits, optionally in comma-separated groups of three, and
\* an optional decimal point followed by digits
NumericText(s) ==
    /\ CommaSeparated(s)
    /\ \A i \in 1..Len(s) : s[i] = "," => LeadingDigits(s, i + 1) = 3

\* the contiguous numeric substrings of s, as pairs of first and last position
NumericSubstrings(s) ==
    {p \in (1..Len(s)) \X (1..Len(s)) :
        p[1] <= p[2] /\ NumericText(SubSeq(s, p[1], p[2]))}

\* C22: extractAmountFromHebrewText returns the value of the longest contiguous
\* numeric substring of the text with its separators stripped, and null when the
\* text has no numeric substring.
C22_LongestNumericSubstring ==
    (UtilDone("amount") /\ util.arg.t = "string") =>
        LET s == util.arg.s
            subs == NumericSubstrings(s)
        IN  IF subs = {} THEN util.out = JSNull
            ELSE \E p \in subs :
                   /\ \A q \in subs : q[2] - q[1] <= p[2] - p[1]
                   /\ util.out = Num(PlainValue(ReplaceAll(SubSeq(s, p[1], p[2]), ",")))

\* how often the character c occurs in the first n lines of the text
Occurrences(csvText, n, c) ==
    LET all == Split(csvText, "\n")
        last == IF Len(all) > n THEN n ELSE Len(all)
    IN  Cardinality({p \in (1..last) \X (1..Len(csvText)) :
                        p[2] <= Len(all[p[1]]) /\ all[p[1]][p[2]] = c})

\* the lines a revision of detectDelimiter counts in
LinesCounted == IF util.fn = "delimiter" THEN 1 ELSE 5

\* C23: the detected delimiter is the candidate among comma, semicolon, tab and
\* pipe that occurs most often in the first lines of the text.
C23_MostFrequentDelimiter ==
    (UtilDone("delimiter") \/ UtilDone("delimiter5")) =>
        \A n \in 1..Len(Delimiters) :
            Occurrences(util.arg, LinesCounted, Delimiters[n])
                <= Occurrences(util.arg, LinesCounted, util.out)

\* ---- the two states of a file's result ----

\* the error state: an error message, vendorInfo null and no transactions
ErrorState(r) ==
    /\ r.error = "message"
    /\ r.vendorInfo = "null"
    /\ r.data.transactions.k # "array"

\* the non-error state of the result of f: no error, and a vendor, or none when
\* no detector of the file's path matched
NonErrorState(r, f) ==
    /\ r.error = "absent"
    /\ \/ r.vendorInfo \notin {"null", "undefined"}
       \/ f.ext = "other"
       \/ Scan(PathDetectors(f), f, 1, <<>>).k # "match"

\* the content of the spreadsheet f is read but XLSX.read does not parse it
FailsParsing(f) == f.ext = "xlsx" /\ f.readOk /\ ~f.parseOk

\* C24: every result is either in the error state or in the non-error state, and
\* a file whose content fails spreadsheet parsing is in the error state.
C24_ErrorOrAnalysed ==
    \A i \in Tasks :
        Returned(i) =>
            /\ ErrorState(ret[i]) \/ NonErrorState(ret[i], files[i])
            /\ FailsParsing(files[i]) => ErrorState(ret[i])

\* ---- the authentication error of the ledger client ----

\* the call ended with 'Authentication failed. Please reconnect to YNAB.'
AuthenticationFailed == call.pc = "done" /\ call.outcome = "auth_error"

\* the retry after a successful refresh failed for another reason than 401
RetryFailedOtherwise ==
    /\ call.pc = "done" /\ call.refreshOk
    /\ call.retryStatus \in {"failed", "network"}

\* C26: the authentication error is reported, and the stored tokens cleared with
\* it, only when the refresh failed or the retry was answered 401 again; a retry
\* that fails for another reason reports an API error and keeps the stored tokens.
C26_AuthErrorOnlyForAuthFailures ==
    /\ AuthenticationFailed =>
          \/ call.refreshesAfter401 = 1 /\ ~call.refreshOk
          \/ call.retryStatus = "unauthorized"
    /\ RetryFailedOtherwise =>
          call.outcome \in {"api_error", "network_error"} /\ svc.stored

\* ---- the import ids of one request ----

\* C28: within one createTransactions request, two entries that are different
\* transactions carry different import_id values.
C28_DistinctImportIds ==
    (UtilDone("create") /\ util.out.k = "posted") =>
        \A i, j \in 1..Len(util.out.body) :
            (i # j /\ [util.out.body[i] EXCEPT !.import_id = 0]
                        # [util.out.body[j] EXCEPT !.import_id = 0])
                => util.out.body[i].import_id # util.out.body[j].import_id

\* ---- the upload component: listed files, selections, sending ----

\* the files listed at a time
MaxListed == 2

\* the identifiers analysis extracts from a statement ("" when it finds none)
Identifiers == {"I1"}

\* the budgets of the connected user, the oldest (primary) first, and the
\* accounts of each
Budgets == <<"B1", "B2">>

Accounts(budgetId) ==
    CASE budgetId = "B1" -> {"A1"} [] budgetId = "B2" -> {"A2"} [] OTHER -> {}

\* the budget with the oldest first_month, null before the budgets are there
primaryBudget == IF ui.connected THEN Budgets[1] ELSE ""

\* !x of a budgetId, accountId or identifier
Chosen(x) == x \notin {"", "undefined"}

\* what the last handler did: the handler, the answers of its
\* createTransactions calls, and the stored mapping it found
Did(op, calls) == [op |-> op, calls |-> calls, before |-> ui.storedMappings]

NoCalls == [b \in {} |-> "ok"]

\* the effect on [files.length, accessToken]: files without a budget get the
\* primary one
WithPrimaryBudget(fs) ==
    IF ui.connected /\ Len(fs) > 0
    THEN [i \in 1..Len(fs) |->
            [fs[i] EXCEPT !.budgetId = IF Chosen(@) THEN @ ELSE Budgets[1]]]
    ELSE fs

\* the listed entry processFiles builds for a file with the identifier
processFilesNoPreselect(identifier) ==
    [identifier |-> identifier, budgetId |-> primaryBudget, accountId |-> ""]

processFiles(identifier) ==
    [identifier |-> identifier,
     budgetId |-> primaryBudget,
     accountId |-> IF Chosen(identifier)
                   THEN ui.storedMappings[identifier]
                   ELSE ""]

\* the component after an upload of one file by the handler
Uploaded(handler, identifier, resets) ==
    [ui EXCEPT
       !.submissionComplete = IF resets THEN FALSE ELSE @,
       !.files = WithPrimaryBudget(Append(@, processFiles(identifier))),
       !.last = Did(handler, NoCalls)]

handleDrop ==
    /\ ui.pc = "mounted"
    /\ Len(ui.files) < MaxListed
    /\ \E identifier \in Identifiers \cup {""} :
         ui' = Uploaded("handleDrop", identifier, TRUE)
    /\ UNCHANGED <<batchVars, call, svc, row, doc, date, recon, util>>

\* the file picker of the older revision does not reset the submission state
handleFileSelect ==
    /\ ui.pc = "mounted"
    /\ Len(ui.files) < MaxListed
    /\ \E identifier \in Identifiers \cup {""} :
         ui' = Uploaded("handleFileSelect", identifier, ui.revision = "processFiles")
    /\ UNCHANGED <<batchVars, call, svc, row, doc, date, recon, util>>

handleBudgetChange ==
    /\ ui.pc = "mounted"
    /\ \E index \in 1..Len(ui.files),
          budgetId \in {""} \cup (IF ui.connected THEN {Budgets[1], Budgets[2]} ELSE {}) :
         /\ budgetId # ui.files[index].budgetId
         /\ ui' = [ui EXCEPT !.files[index].budgetId = budgetId,
                             !.files[index].accountId = "",
                             !.last = Did("handleBudgetChange", NoCalls)]
    /\ UNCHANGED <<batchVars, call, svc, row, doc, date, recon, util>>

handleAccountChange ==
    /\ ui.pc = "mounted"
    /\ \E index \in 1..Len(ui.files) :
         /\ Chosen(ui.files[index].budgetId)
         /\ \E accountId \in {""} \cup (IF ui.connected
                                        THEN Accounts(ui.files[index].budgetId)
                                        ELSE {}) :
              /\ accountId # ui.files[index].accountId
              /\ ui' = [ui EXCEPT !.files[index].accountId = accountId,
                                  !.last = Did("handleAccountChange", NoCalls)]
    /\ UNCHANGED <<batchVars, call, svc, row, doc, date, recon, util>>

handleRemoveFile ==
    /\ ui.pc = "mounted"
    /\ \E index \in 1..Len(ui.files) :
         ui' = [ui EXCEPT
                  !.files = WithPrimaryBudget(
                              [i \in 1..(Len(@) - 1) |-> IF i < index THEN @[i] ELSE @[i + 1]]),
                  !.last = Did("handleRemoveFile", NoCalls)]
    /\ UNCHANGED <<batchVars, call, svc, row, doc, date, recon, util>>

handleDisconnect ==
    /\ ui.pc = "mounted" /\ ui.connected
    /\ ui' = [ui EXCEPT !.connected = FALSE, !.last = Did("handleDisconnect", NoCalls)]
    /\ UNCHANGED <<batchVars, call, svc, row, doc, date, recon, util>>

\* the send button is enabled
canSendIgnoringCompletion ==
    /\ Len(ui.files) > 0
    /\ \A i \in 1..Len(ui.files) :
         Chosen(ui.files[i].budgetId) /\ Chosen(ui.files[i].accountId)

canSendToYNAB ==
    /\ Len(ui.files) > 0
    /\ \A i \in 1..Len(ui.files) :
         Chosen(ui.files[i].budgetId) /\ Chosen(ui.files[i].accountId)
    /\ ~ui.submissionComplete

\* files.forEach(file => storedMappings[file.identifier] = file.accountId)
RECURSIVE StoreMappings(_, _, _)
StoreMappings(mappings, fs, i) ==
    IF i > Len(fs) THEN mappings
    ELSE StoreMappings(
           IF Chosen(fs[i].identifier) /\ Chosen(fs[i].accountId)
           THEN [mappings EXCEPT ![fs[i].identifier] = fs[i].accountId]
           ELSE mappings,
           fs, i + 1)

AllSucceeded(calls) == \A b \in DOMAIN calls : calls[b] = "ok"

\* the stored mapping a send leaves, given the answers of its calls
StoredRegardless(calls) == StoreMappings(ui.storedMappings, ui.files, 1)

StoredAfterSend(calls) ==
    IF AllSucceeded(calls)
    THEN StoreMappings(ui.storedMappings, ui.files, 1)
    ELSE ui.storedMappings

\* the accounts the files with the identifier went to in this send, and the
\* account of the last listed of them
SentNow(identifier) ==
    LET at == {i \in 1..Len(ui.files) : ui.files[i].identifier = identifier}
        last == CHOOSE i \in at : \A j \in at : j <= i
    IN IF at = {} THEN ui.sent[identifier]
       ELSE [all |-> {ui.files[i].accountId : i \in at}, last |-> ui.files[last].accountId]

\* the click on the send button: the whole of handleSendToYNAB up to the
\* stored mapping and the submission state
onSendToYNAB ==
    /\ ui.pc = "mounted"
    /\ canSendToYNAB
    /\ IF ~ui.connected
       THEN ui' = [ui EXCEPT !.error = "YNAB service is not initialized",
                             !.last = Did("handleSendToYNAB", NoCalls)]
       ELSE IF \E i \in 1..Len(ui.files) :
                 ~Chosen(ui.files[i].budgetId) \/ ~Chosen(ui.files[i].accountId)
       THEN ui' = [ui EXCEPT !.error = "Please select a budget and account for all files",
                             !.last = Did("handleSendToYNAB", NoCalls)]
       ELSE \E calls \in [{ui.files[i].budgetId : i \in 1..Len(ui.files)}
                            -> {"ok", "api_error", "auth_error"}] :
              ui' = [ui EXCEPT
                       !.storedMappings = StoredAfterSend(calls),
                       !.submissionComplete = IF AllSucceeded(calls) THEN TRUE ELSE @,
                       !.error = IF AllSucceeded(calls) THEN "" ELSE "Failed to send",
                       !.sent = IF AllSucceeded(calls)
                                THEN [identifier \in Identifiers |-> SentNow(identifier)]
                                ELSE @,
                       !.last = Did("handleSendToYNAB", calls)]
    /\ UNCHANGED <<batchVars, call, svc, row, doc, date, recon, util>>

InitUi ==
    /\ files = <<>> /\ batch = "idle" /\ pc = <<>> /\ loc = <<>> /\ ret = <<>>
    /\ values = <<>> /\ order = <<>> /\ raised = <<>> /\ unhandled = {} /\ out = <<>>
    /\ call = IdleCall /\ svc = IdleSvc
    /\ row = IdleRow /\ doc = IdleDoc /\ date = IdleDate /\ recon = IdleRecon
    /\ util = IdleUtil
    /\ \E revision \in {"processFiles", "inline"} :
         ui = [pc |-> "mounted", revision |-> revision, connected |-> TRUE,
               files |-> <<>>, submissionComplete |-> FALSE, error |-> "",
               storedMappings |-> [identifier \in Identifiers |-> "undefined"],
               sent |-> [identifier \in Identifiers |-> [all |-> {}, last |-> ""]],
               last |-> [op |-> "mount", calls |-> NoCalls,
                         before |-> [identifier \in Identifiers |-> "undefined"]]]

NextUi ==
    \/ handleDrop
    \/ handleFileSelect
    \/ handleBudgetChange
    \/ handleAccountChange
    \/ handleRemoveFile
    \/ handleDisconnect
    \/ onSendToYNAB

SpecUi == InitUi /\ [][NextUi]_vars

\* ---- the pre-selected account of an upload ----

\* the last handler was an upload
JustUploaded == ui.pc = "mounted" /\ ui.last.op \in {"handleDrop", "handleFileSelect"}

\* the entry the upload appended
NewFile == ui.files[Len(ui.files)]

\* the uploaded file bears an identifier that a successful send has carried
SentBefore ==
    /\ JustUploaded
    /\ Chosen(NewFile.identifier)
    /\ ui.sent[NewFile.identifier].all # {}

\* C25 as stated: after a file with identifier I has been sent successfully to
\* account A, the next upload of a file with identifier I has A pre-selected,
\* for every account A a file with that identifier went to in the send.
C25_PreselectsSentAccount ==
    SentBefore =>
        \A accountId \in ui.sent[NewFile.identifier].all : NewFile.accountId = accountId

\* C25: after a successful send, the next upload of a file with identifier I has
\* pre-selected the account of the last listed file with identifier I of the
\* most recent successful send that listed such a file.
C25_PreselectsLastSentAccount ==
    SentBefore => NewFile.accountId = ui.sent[NewFile.identifier].last

C25_Witness ==
    /\ SentBefore
    /\ ui.sent[NewFile.identifier].all = {"A1", "A2"}
    /\ NewFile.accountId = "A2"

\* ---- no second submission ----

\* C27: a send starts only while the submission is not complete, and a complete
\* submission is reset by nothing but an upload, whatever edits and removals
\* happen in between and whichever upload path is taken.
C27_NoSecondSubmission ==
    [][/\ (ui'.last.op = "handleSendToYNAB" /\ ui' # ui) => ~ui.submissionComplete
       /\ (ui.submissionComplete /\ ~ui'.submissionComplete)
             => ui'.last.op \in {"handleDrop", "handleFileSelect"}]_vars

C27_Witness ==
    /\ ui.pc = "mounted" /\ ui.submissionComplete
    /\ ui.last.op = "handleAccountChange"
    /\ Len(ui.files) > 0
    /\ \A i \in 1..Len(ui.files) :
         Chosen(ui.files[i].budgetId) /\ Chosen(ui.files[i].accountId)

\* ---- the account of a listed file and its budget ----

\* C29: the selected account of every listed file is empty or an account of the
\* file's selected budget.
C29_AccountBelongsToBudget ==
    ui.pc = "mounted" =>
        \A i \in 1..Len(ui.files) :
            \/ ~Chosen(ui.files[i].accountId)
            \/ ui.files[i].accountId \in Accounts(ui.files[i].budgetId)

\* ---- the stored mapping and a send ----

\* the last handler was a send
JustSent == ui.pc = "mounted" /\ ui.last.op = "handleSendToYNAB"

\* C30: the stored mapping differs from the one a handler found only when the
\* handler was a send all of whose createTransactions calls succeeded; a send
\* that failed validation or one of whose calls failed leaves it as it was.
C30_MappingStoredOnlyAfterSuccess ==
    ui.pc = "mounted" =>
        /\ ui.storedMappings # ui.last.before =>
              /\ JustSent
              /\ DOMAIN ui.last.calls # {}
              /\ \A b \in DOMAIN ui.last.calls : ui.last.calls[b] = "ok"
        /\ (JustSent /\ ui.error # "") => ui.storedMappings = ui.last.before

C30_Witness ==
    /\ JustSent
    /\ \E b \in DOMAIN ui.last.calls : ui.last.calls[b] = "ok"
    /\ \E b \in DOMAIN ui.last.calls : ui.last.calls[b] = "auth_error"
    /\ StoreMappings(ui.storedMappings, ui.files, 1) # ui.storedMappings
    /\ ui.storedMappings = ui.last.before

====
